---------------------------- MODULE Spec2Model ----------------------------
(***************************************************************************)
(* Model of dsrs-core: the generation control loop Adapter::generate       *)
(* (crates/dsrs-core/src/adapters/traits.rs) together with the Signature   *)
(* hooks and the CompletionProvider it drives.                             *)
(*                                                                         *)
(* Further specifications apply the adapters' pure functions to bounded    *)
(* inputs: TypeNameSpec (schema_parser.rs), ChatSpec (chat_adapter.rs),    *)
(* JsonSpec (json_adapter.rs), and RenderSpec, which runs generate with    *)
(* the texts of its messages.                                              *)
(*                                                                         *)
(* Option<T> is written as a sequence of length 0 (None) or 1 (Some(x)).   *)
(* Result<T, E> is a record [kind |-> "Ok" | "Err", ...].                  *)
(* A serde_json::Value is a record tagged by t; a text whose characters    *)
(* matter is the sequence of its characters.                               *)
(***************************************************************************)
EXTENDS Integers, Sequences, FiniteSets, TLC

\* ------------------------------------------------------------------ bounds
MaxRetriesBound == 3
MaxDemos == 2

\* ------------------------------------------------------------ Option<T>
None == <<>>
Some(x) == <<x>>
IsSome(o) == Len(o) = 1
Unwrap(o) == o[1]

\* Option::or : self when it is Some, otherwise the argument
OptionOr(self, other) == IF IsSome(self) THEN self ELSE other

\* --------------------------------------------------------------- messages
Msg(role, content, tool_calls) ==
    [role |-> role, content |-> content, tool_calls |-> tool_calls]

\* Message::system / Message::user / Message::assistant / Message::tool
MessageSystem(text) == Msg("System", Some(text), None)
MessageUser(text) == Msg("User", Some(text), None)
MessageAssistant(content, tool_calls) == Msg("Assistant", content, tool_calls)
MessageTool(text) == Msg("Tool", Some(text), None)

\* the rendered texts; the adapter's format_* methods produce them
\* (demo number, 0 for the current inputs)
SystemContent == <<"system", 0>>
UserContent(which) == <<"user", which>>
AssistantContent(which) == <<"assistant", which>>

\* format_demos_with_schemas: a user and an assistant message per demo
RECURSIVE format_demos_with_schemas(_)
format_demos_with_schemas(n) ==
    IF n = 0 THEN <<>>
    ELSE format_demos_with_schemas(n - 1)
         \o << MessageUser(UserContent(n)),
               MessageAssistant(Some(AssistantContent(n)), None) >>

\* variant: the system message is left out
format_messages_with_schemas_NoSystem(n) ==
    format_demos_with_schemas(n) \o << MessageUser(UserContent(0)) >>

\* format_messages_with_schemas: system message, demos, current user message
format_messages_with_schemas(n) ==
    << MessageSystem(SystemContent) >>
    \o format_demos_with_schemas(n)
    \o << MessageUser(UserContent(0)) >>

\* Vec::splice(at..at, items) with at counted from 0
Splice(v, at, items) ==
    SubSeq(v, 1, at) \o items \o SubSeq(v, at + 1, Len(v))

\* variant: the history is inserted in front of the system message
SpliceHistory_AtFront(messages, history) ==
    IF IsSome(history) THEN Splice(messages, 0, Unwrap(history)) ELSE messages

\* the history branch of generate
SpliceHistory(messages, history) ==
    IF IsSome(history)
    THEN IF messages # <<>>
         THEN Splice(messages, 1, Unwrap(history))
         ELSE messages \o Unwrap(history)
    ELSE messages

\* variant: base_config.tools.or(tools)
BuildConfig_BaseFirst(base_config, tools) ==
    [model |-> base_config.model, tools |-> OptionOr(base_config.tools, tools)]

\* CompletionConfig { model, tools: tools.or(base_config.tools) }
BuildConfig(base_config, tools) ==
    [model |-> base_config.model, tools |-> OptionOr(tools, base_config.tools)]

\* ------------------------------------------------------- signature hooks
\* Outputs value: the regular field and the tool-call special field
Outputs(answer, tool_calls) == [answer |-> answer, tool_calls |-> tool_calls]

Ok(v) == [kind |-> "Ok", val |-> v]
Err(e) == [kind |-> "Err", err |-> e]
IsOk(r) == r.kind = "Ok"
Error(kind, id) == [kind |-> kind, id |-> id]

\* Signature::extract_history / extract_tools: the special fields of the inputs
extract_history(inputs) == inputs.history
extract_tools(inputs) == inputs.tools

\* Signature::inject_tool_calls(&mut outputs, calls) -> Result<()>, with the
\* outputs as left by the hook.  "default": the trait's no-op; "enhanced":
\* writes the calls into the tool_calls field; "failing": the target cannot
\* hold the calls.
inject_tool_calls(sig, outputs, calls) ==
    CASE sig.inject = "default" -> Ok(outputs)
      [] sig.inject = "enhanced" -> Ok([outputs EXCEPT !.tool_calls = Some(calls)])
      [] OTHER -> Err(Error("InjectError", "inject"))

\* Signature::merge_special_outputs(regular, calls) -> Result<Outputs>.
\* "identity": the trait's default and EnhancedSignature, Ok(regular);
\* "explicit": ExplicitPromptSignature, which rebuilds the outputs from their
\* prompt fields and the calls it is given (none when it is given none);
\* "failing": an implementation that returns an error.
merge_special_outputs(sig, regular, calls) ==
    CASE sig.merge = "identity" -> Ok(regular)
      [] sig.merge = "explicit" -> Ok([regular EXCEPT !.tool_calls = calls])
      [] OTHER -> Err(Error("MergeError", "merge"))

\* Adapter::parse(completion, schema) -> Result<Outputs>
parse(text) ==
    IF text = "good" THEN Ok(Outputs(Some(text), None))
    ELSE Err(Error("ParseError", text))

\* serde_json::from_value(json!({})): succeeds only for an Outputs type
\* without required fields
FromEmptyObject(sig) ==
    IF sig.outputs_default THEN Ok(Outputs(None, None))
    ELSE Err(Error("DecodeError", "empty"))

\* ------------------------------------------------------------ call inputs
ToolCallSets == { <<"tc1">>, <<"tc2", "tc1">> }
Completions == { "good", "bad" }
ProviderErrors == { "E1", "E2" }
Histories ==
    { None, Some(<<>>),
      Some(<< MessageUser(<<"history", 1>>),
              MessageAssistant(Some(<<"history", 2>>), None) >>) }
ExtractedToolOptions == { None, Some(<<"tool_a">>) }
BaseToolOptions == { None, Some(<<"tool_b">>) }
Signatures ==
    [inject : {"default", "enhanced", "failing"},
     merge : {"identity", "explicit", "failing"},
     outputs_default : BOOLEAN]

\* what CompletionProvider::complete can return to generate
ProviderReturns ==
    { Err(Error("ProviderError", e)) : e \in ProviderErrors }
    \cup { Ok(MessageAssistant(c, t)) :
             c \in {None} \cup { Some(x) : x \in Completions },
             t \in {None} \cup { Some(x) : x \in ToolCallSets } }
    \cup { Ok(MessageTool(<<"tool", 0>>)) }

VARIABLES
    max_retries,   \* self.config().max_retries
    demos,         \* number of demos passed to generate
    inputs,        \* the special fields of the inputs: [history, tools]
    base_config,   \* the caller's CompletionConfig
    signature,     \* behaviour of the signature's hooks and Outputs type
    pc,            \* "start", "loop", "awaiting" (provider call pending), "done"
    messages,      \* all_messages
    config,        \* the config built for the provider
    attempt,       \* loop variable of the retry loop
    invocations,   \* number of provider.complete calls started
    outstanding,   \* provider.complete calls started and not yet returned
    sent,          \* (messages, config) handed to the provider, per invocation
    responses,     \* what the provider returned, per invocation
    hooks,         \* calls of parse / from_value / inject / merge, in order
    log,           \* eprintln lines
    result,        \* None while running, Some(Result) once generate returned
    fn_in,         \* adapter-level input: a schema, a completion, an output value
    fn_out         \* what the adapter function applied to fn_in returned

params == <<max_retries, demos, inputs, base_config, signature>>
adapterVars == <<fn_in, fn_out>>
vars == <<max_retries, demos, inputs, base_config, signature, pc, messages,
          config, attempt, invocations, outstanding, sent, responses, hooks,
          log, result, fn_in, fn_out>>

Init ==
    /\ max_retries \in 0..MaxRetriesBound
    /\ demos \in 0..MaxDemos
    /\ inputs \in [history : Histories, tools : ExtractedToolOptions]
    /\ base_config \in [model : {"m"}, tools : BaseToolOptions]
    /\ signature \in Signatures
    /\ pc = "start"
    /\ messages = <<>>
    /\ config = base_config
    /\ attempt = 0
    /\ invocations = 0
    /\ outstanding = 0
    /\ sent = <<>>
    /\ responses = <<>>
    /\ hooks = <<>>
    /\ log = <<>>
    /\ result = None
    /\ fn_in = None
    /\ fn_out = None

\* ------------------------------------------------------------- generate
Hook(op, arg, ret) == [op |-> op, attempt |-> attempt, arg |-> arg, ret |-> ret]

\* variant: the range of the loop includes max_retries
InRange_Inclusive(a) == a <= max_retries

\* the loop bound: for attempt in 0..self.config().max_retries
InRange(a) == a < max_retries

\* variant: the parse-error arm retries on every attempt
ParseRetryGuard_NoLast(a) == a < max_retries

\* the guard of the parse-error retry arm: attempt < max_retries - 1
ParseRetryGuard(a) == a < max_retries - 1

\* variant: the provider-error arm gives up one attempt early
ProviderRetryGuard_OneEarly(a) == a < max_retries - 2

\* variant: the provider-error arm retries on every attempt
ProviderRetryGuard_NoLast(a) == a < max_retries

\* the guard of the provider-error retry arm: attempt < max_retries - 1
ProviderRetryGuard(a) == a < max_retries - 1

\* the patterns the response is matched against
IsTextResponse(m) == m.role = "Assistant" /\ IsSome(m.content)
IsToolOnlyResponse(m) ==
    m.role = "Assistant" /\ ~IsSome(m.content) /\ IsSome(m.tool_calls)

\* generate up to the retry loop: extract the special fields, render the
\* messages, splice the history, build the config
EnterLoop ==
    /\ pc = "start"
    /\ messages' = SpliceHistory(format_messages_with_schemas(demos),
                                 extract_history(inputs))
    /\ config' = BuildConfig(base_config, extract_tools(inputs))
    /\ attempt' = 0
    /\ pc' = "loop"
    /\ UNCHANGED <<params, invocations, outstanding, sent, responses, hooks,
                   log, result>>

GenerateStart == EnterLoop /\ UNCHANGED adapterVars

\* variant: the next attempt is started while a call is still pending
CallProvider_FanOut ==
    /\ pc \in {"loop", "awaiting"}
    /\ InRange(invocations)
    /\ invocations' = invocations + 1
    /\ outstanding' = outstanding + 1
    /\ sent' = Append(sent, [messages |-> messages, config |-> config])
    /\ pc' = "awaiting"
    /\ UNCHANGED <<params, messages, config, attempt, responses, hooks, log,
                   result, adapterVars>>

\* provider.complete(all_messages.clone(), config.clone()) is called
CallProvider ==
    /\ pc = "loop"
    /\ InRange(attempt)
    /\ invocations' = invocations + 1
    /\ outstanding' = outstanding + 1
    /\ sent' = Append(sent, [messages |-> messages, config |-> config])
    /\ pc' = "awaiting"
    /\ UNCHANGED <<params, messages, config, attempt, responses, hooks, log,
                   result, adapterVars>>

\* variant: a loop that ran out returns nothing
Exhausted_NoReturn ==
    /\ pc = "loop"
    /\ ~InRange(attempt)
    /\ UNCHANGED vars

\* the loop ran out: Err("Failed after {max_retries} attempts")
Exhausted ==
    /\ pc = "loop"
    /\ ~InRange(attempt)
    /\ result' = Some(Err(Error("FailedAfter", max_retries)))
    /\ pc' = "done"
    /\ UNCHANGED <<params, messages, config, attempt, invocations,
                   outstanding, sent, responses, hooks, log, adapterVars>>

\* variant: a retry does not use up an attempt
Continue_NoCount(line) ==
    /\ log' = Append(log, line)
    /\ attempt' = attempt
    /\ pc' = "loop"
    /\ UNCHANGED result

\* eprintln and `continue`
Continue(line) ==
    /\ log' = Append(log, line)
    /\ attempt' = attempt + 1
    /\ pc' = "loop"
    /\ UNCHANGED result

\* `return r`
Return(r) ==
    /\ result' = Some(r)
    /\ pc' = "done"
    /\ UNCHANGED <<log, attempt>>

\* the pending provider.complete(..).await yields r
Returned(r) ==
    /\ pc = "awaiting"
    /\ outstanding' = outstanding - 1
    /\ responses' = Append(responses, r)
    /\ UNCHANGED <<params, messages, config, invocations, sent, adapterVars>>

\* variant: before a retry the error is appended to the message list
ProviderFailed_ErrorAppended ==
    \E r \in ProviderReturns :
        /\ ~IsOk(r)
        /\ pc = "awaiting"
        /\ outstanding' = outstanding - 1
        /\ responses' = Append(responses, r)
        /\ UNCHANGED <<params, config, invocations, sent, adapterVars, hooks>>
        /\ IF ProviderRetryGuard(attempt)
           THEN /\ messages' = Append(messages, MessageUser(<<"error", attempt>>))
                /\ Continue([kind |-> "Provider error", attempt |-> attempt + 1,
                             err |-> r.err])
           ELSE /\ UNCHANGED messages
                /\ Return(r)

\* Err(e) from the provider: retried unless this is the last attempt
ProviderFailed ==
    \E r \in ProviderReturns :
        /\ ~IsOk(r)
        /\ Returned(r)
        /\ UNCHANGED hooks
        /\ IF ProviderRetryGuard(attempt)
           THEN Continue([kind |-> "Provider error", attempt |-> attempt + 1,
                          err |-> r.err])
           ELSE Return(r)

\* variant: the error of inject_tool_calls is dropped and merge still runs
InjectAndMerge_InjectIgnored(outputs, tool_calls) ==
    IF IsSome(tool_calls)
    THEN LET calls == Unwrap(tool_calls)
             inj == inject_tool_calls(signature, outputs, calls)
             out == IF IsOk(inj) THEN inj.val ELSE outputs
             m == merge_special_outputs(signature, out, Some(calls))
         IN  [hooks |-> << Hook("inject", calls, inj),
                           Hook("merge", <<out, Some(calls)>>, m) >>,
              ret |-> m]
    ELSE LET m == merge_special_outputs(signature, outputs, None)
         IN  [hooks |-> << Hook("merge", <<outputs, None>>, m) >>, ret |-> m]

\* variant: without tool calls the parsed outputs are returned unmerged
InjectAndMerge_NoMerge(outputs, tool_calls) ==
    IF IsSome(tool_calls)
    THEN LET calls == Unwrap(tool_calls)
             inj == inject_tool_calls(signature, outputs, calls)
         IN  IF IsOk(inj)
             THEN LET m == merge_special_outputs(signature, inj.val, Some(calls))
                  IN  [hooks |-> << Hook("inject", calls, inj),
                                    Hook("merge", <<inj.val, Some(calls)>>, m) >>,
                       ret |-> m]
             ELSE [hooks |-> << Hook("inject", calls, inj) >>, ret |-> inj]
    ELSE [hooks |-> <<>>, ret |-> Ok(outputs)]

\* variant: merge runs on the parsed outputs first, inject afterwards
InjectAndMerge_MergeFirst(outputs, tool_calls) ==
    IF IsSome(tool_calls)
    THEN LET calls == Unwrap(tool_calls)
             m == merge_special_outputs(signature, outputs, Some(calls))
         IN  IF IsOk(m)
             THEN LET inj == inject_tool_calls(signature, m.val, calls)
                  IN  [hooks |-> << Hook("merge", <<outputs, Some(calls)>>, m),
                                    Hook("inject", calls, inj) >>,
                       ret |-> inj]
             ELSE [hooks |-> << Hook("merge", <<outputs, Some(calls)>>, m) >>,
                   ret |-> m]
    ELSE LET m == merge_special_outputs(signature, outputs, None)
         IN  [hooks |-> << Hook("merge", <<outputs, None>>, m) >>, ret |-> m]

\* inject (when the response carries calls) and merge, on parsed outputs:
\* the hook calls made and the value generate returns
InjectAndMerge(outputs, tool_calls) ==
    IF IsSome(tool_calls)
    THEN LET calls == Unwrap(tool_calls)
             inj == inject_tool_calls(signature, outputs, calls)
         IN  IF IsOk(inj)
             THEN LET m == merge_special_outputs(signature, inj.val, Some(calls))
                  IN  [hooks |-> << Hook("inject", calls, inj),
                                    Hook("merge", <<inj.val, Some(calls)>>, m) >>,
                       ret |-> m]
             ELSE [hooks |-> << Hook("inject", calls, inj) >>, ret |-> inj]
    ELSE LET m == merge_special_outputs(signature, outputs, None)
         IN  [hooks |-> << Hook("merge", <<outputs, None>>, m) >>, ret |-> m]

\* variant: an error of the hooks after a successful parse is retried
AssistantText_HookRetry ==
    \E r \in ProviderReturns :
        /\ IsOk(r)
        /\ IsTextResponse(r.val)
        /\ Returned(r)
        /\ LET text == Unwrap(r.val.content)
               parsed == parse(text)
           IN  IF IsOk(parsed)
               THEN LET im == InjectAndMerge(parsed.val, r.val.tool_calls) IN
                    /\ hooks' = hooks \o << Hook("parse", text, parsed) >> \o im.hooks
                    /\ IF ~IsOk(im.ret) /\ ParseRetryGuard(attempt)
                       THEN Continue([kind |-> "Parse error",
                                      attempt |-> attempt + 1, err |-> im.ret.err])
                       ELSE Return(im.ret)
               ELSE /\ hooks' = Append(hooks, Hook("parse", text, parsed))
                    /\ IF ParseRetryGuard(attempt)
                       THEN Continue([kind |-> "Parse error",
                                      attempt |-> attempt + 1, err |-> parsed.err])
                       ELSE Return(parsed)

\* Ok(Assistant { content: Some(Text(text)), tool_calls })
AssistantText ==
    \E r \in ProviderReturns :
        /\ IsOk(r)
        /\ IsTextResponse(r.val)
        /\ Returned(r)
        /\ LET text == Unwrap(r.val.content)
               parsed == parse(text)
           IN  IF IsOk(parsed)
               THEN LET im == InjectAndMerge(parsed.val, r.val.tool_calls) IN
                    /\ hooks' = hooks \o << Hook("parse", text, parsed) >> \o im.hooks
                    /\ Return(im.ret)
               ELSE /\ hooks' = Append(hooks, Hook("parse", text, parsed))
                    /\ IF ParseRetryGuard(attempt)
                       THEN Continue([kind |-> "Parse error",
                                      attempt |-> attempt + 1, err |-> parsed.err])
                       ELSE Return(parsed)

\* variant: the tool-only response is parsed as an empty completion
ToolOnly_Parsed ==
    \E r \in ProviderReturns :
        /\ IsOk(r)
        /\ ~IsTextResponse(r.val)
        /\ IsToolOnlyResponse(r.val)
        /\ Returned(r)
        /\ LET parsed == parse("") IN
           IF IsOk(parsed)
           THEN LET im == InjectAndMerge(parsed.val, r.val.tool_calls) IN
                /\ hooks' = hooks \o << Hook("parse", "", parsed) >> \o im.hooks
                /\ Return(im.ret)
           ELSE /\ hooks' = Append(hooks, Hook("parse", "", parsed))
                /\ Return(parsed)

\* variant: an Outputs type that cannot be built from {} is retried
ToolOnly_EmptyRetried ==
    \E r \in ProviderReturns :
        /\ IsOk(r)
        /\ ~IsTextResponse(r.val)
        /\ IsToolOnlyResponse(r.val)
        /\ Returned(r)
        /\ LET empty == FromEmptyObject(signature) IN
           IF IsOk(empty)
           THEN LET im == InjectAndMerge(empty.val, r.val.tool_calls) IN
                /\ hooks' = hooks \o << Hook("from_value", "{}", empty) >> \o im.hooks
                /\ Return(im.ret)
           ELSE /\ hooks' = Append(hooks, Hook("from_value", "{}", empty))
                /\ IF ParseRetryGuard(attempt)
                   THEN Continue([kind |-> "Parse error",
                                  attempt |-> attempt + 1, err |-> empty.err])
                   ELSE Return(empty)

\* Ok(Assistant { content: None, tool_calls: Some(calls) })
ToolOnly ==
    \E r \in ProviderReturns :
        /\ IsOk(r)
        /\ ~IsTextResponse(r.val)
        /\ IsToolOnlyResponse(r.val)
        /\ Returned(r)
        /\ LET empty == FromEmptyObject(signature) IN
           IF IsOk(empty)
           THEN LET im == InjectAndMerge(empty.val, r.val.tool_calls) IN
                /\ hooks' = hooks \o << Hook("from_value", "{}", empty) >> \o im.hooks
                /\ Return(im.ret)
           ELSE /\ hooks' = Append(hooks, Hook("from_value", "{}", empty))
                /\ Return(empty)

\* variant: an unrecognized response is retried like a provider error
OtherShape_Retried ==
    \E r \in ProviderReturns :
        /\ IsOk(r)
        /\ ~IsTextResponse(r.val)
        /\ ~IsToolOnlyResponse(r.val)
        /\ Returned(r)
        /\ UNCHANGED hooks
        /\ IF ProviderRetryGuard(attempt)
           THEN Continue([kind |-> "Provider error", attempt |-> attempt + 1,
                          err |-> Error("ShapeError", "shape")])
           ELSE Return(Err(Error("ShapeError", "shape")))

\* any other Ok(response): the shape error
OtherShape ==
    \E r \in ProviderReturns :
        /\ IsOk(r)
        /\ ~IsTextResponse(r.val)
        /\ ~IsToolOnlyResponse(r.val)
        /\ Returned(r)
        /\ UNCHANGED hooks
        /\ Return(Err(Error("ShapeError", "shape")))

Next ==
    \/ GenerateStart
    \/ CallProvider
    \/ Exhausted
    \/ ProviderFailed
    \/ AssistantText
    \/ ToolOnly
    \/ OtherShape

Spec == Init /\ [][Next]_vars

\* ------------------------------------------------------------ properties
\* number of provider returns so far, and the latest one
NumResponses == Len(responses)
LastResponse == responses[NumResponses]

\* the response handler has run on the latest response
Handled == pc \in {"loop", "done"} /\ NumResponses >= 1

\* the first n provider invocations failed
AllProviderErrors(n) == \A i \in 1..n : ~IsOk(responses[i])

LastIsText == IsOk(LastResponse) /\ IsTextResponse(LastResponse.val)
LastText == Unwrap(LastResponse.val.content)
LastCalls == LastResponse.val.tool_calls
LastParses == LastIsText /\ IsOk(parse(LastText))
LastParseFails == LastIsText /\ ~IsOk(parse(LastText))
LastIsToolOnly ==
    /\ IsOk(LastResponse)
    /\ LastResponse.val.role = "Assistant"
    /\ LastResponse.val.content = None
    /\ LastResponse.val.tool_calls # None

\* hooks called while handling the latest response
HooksOfLast == SelectSeq(hooks, LAMBDA h : h.attempt = NumResponses - 1)
HooksNamed(op) == SelectSeq(hooks, LAMBDA h : h.op = op)

\* C1: for max_retries >= 1 and k < max_retries, when the provider fails on
\* its first k invocations and then returns a text that parses (and the
\* hooks succeed), generate returns the merged output after exactly k + 1
\* invocations; after k < max_retries failures generate has not returned
\* and invocation k + 1 is its next step.
C1_RetryThenSuccess ==
    LET n == NumResponses
        hooksSucceed ==
            /\ signature.merge = "identity"
            /\ (IsSome(LastCalls) => signature.inject # "failing")
        expected ==
            Outputs(Some(LastText),
                    IF IsSome(LastCalls) /\ signature.inject = "enhanced"
                    THEN LastCalls ELSE None)
    IN  /\ (Handled /\ AllProviderErrors(n - 1) /\ LastParses /\ hooksSucceed)
            => /\ n <= max_retries
               /\ pc = "done"
               /\ invocations = n
               /\ result = Some(Ok(expected))
        /\ (pc # "start" /\ n < max_retries /\ AllProviderErrors(n))
            => /\ result = None
               /\ pc \in {"loop", "awaiting"}
               /\ (pc = "loop" => attempt = n /\ InRange(attempt))
               /\ (pc = "awaiting" => invocations = n + 1)

\* the spec's stub: two failures, then success, with max_retries = 3
C1_Witness ==
    /\ pc = "done"
    /\ max_retries = 3
    /\ NumResponses = 3
    /\ AllProviderErrors(2)
    /\ LastParses
    /\ invocations = 3
    /\ result # None
    /\ IsOk(Unwrap(result))

\* C2: for max_retries >= 1, when every provider invocation fails, the
\* provider is invoked exactly max_retries times (never more) and generate
\* returns the error of the last invocation; the earlier errors are logged
\* and nothing else happens to them.
C2_AllFail ==
    /\ invocations <= max_retries
    /\ (pc = "done" /\ max_retries >= 1 /\ AllProviderErrors(NumResponses))
        => /\ invocations = max_retries
           /\ NumResponses = max_retries
           /\ result = Some(responses[max_retries])
           /\ Len(log) = max_retries - 1
           /\ \A i \in 1..(max_retries - 1) :
                /\ log[i].kind = "Provider error"
                /\ log[i].err = responses[i].err
           /\ hooks = <<>>

\* three failures with max_retries = 3, the last error differing from the first
C2_Witness ==
    /\ pc = "done"
    /\ max_retries = 3
    /\ NumResponses = 3
    /\ AllProviderErrors(3)
    /\ responses[1] # responses[3]
    /\ result = Some(responses[3])

\* C3: a parse failure is retried like a provider error: on an attempt
\* other than the last, generate goes on to invoke the provider again, and
\* on the last attempt (index max_retries - 1) the parse error itself is the
\* result.
C3_ParseFailureRetried ==
    LET n == NumResponses
        disposition(final) ==
            IF n < max_retries
            THEN /\ pc = "loop"
                 /\ attempt = n
                 /\ InRange(attempt)
                 /\ result = None
                 /\ Len(log) = n
            ELSE /\ n = max_retries
                 /\ pc = "done"
                 /\ invocations = max_retries
                 /\ result = Some(final)
    IN  /\ (Handled /\ LastParseFails) => disposition(parse(LastText))
        /\ (Handled /\ ~IsOk(LastResponse)) => disposition(LastResponse)

\* a parse failure retried on attempt 0 and a parse failure returned on the
\* last attempt
C3_Witness ==
    /\ pc = "done"
    /\ max_retries = 2
    /\ NumResponses = 2
    /\ IsOk(responses[1])
    /\ IsTextResponse(responses[1].val)
    /\ ~IsOk(parse(Unwrap(responses[1].val.content)))
    /\ LastParseFails
    /\ result = Some(parse(LastText))

\* generate returned while handling the latest response, which was the
\* provider's last invocation
ReturnedOnLast ==
    /\ pc = "done"
    /\ result # None
    /\ invocations = NumResponses
    /\ outstanding = 0

\* C4 as stated: once an attempt yields a text that parses, generate returns
\* the result of merge_special_outputs for that attempt and the provider is
\* not invoked again.
C4_AsStated ==
    (Handled /\ LastParses)
        => /\ ReturnedOnLast
           /\ \E i \in 1..Len(HooksOfLast) :
                /\ HooksOfLast[i].op = "merge"
                /\ result = Some(HooksOfLast[i].ret)

\* C4 (amended): once an attempt yields a text that parses, generate returns
\* on that attempt, whatever number of attempts remains, and the provider is
\* not invoked again; the value returned is the result of
\* merge_special_outputs for that attempt, unless the response carried tool
\* calls and inject_tool_calls failed, in which case it is that error and
\* merge_special_outputs is not called.
C4_ParsedTextReturns ==
    (Handled /\ LastParses)
        => LET hs == HooksOfLast
               last == hs[Len(hs)]
               injectFailed ==
                   IsSome(LastCalls)
                   /\ ~IsOk(inject_tool_calls(signature, parse(LastText).val,
                                              Unwrap(LastCalls)))
           IN  /\ ReturnedOnLast
               /\ Len(hs) >= 2
               /\ hs[1].op = "parse"
               /\ result = Some(last.ret)
               /\ last.op = IF injectFailed THEN "inject" ELSE "merge"
               /\ injectFailed => ~IsOk(last.ret)
               /\ injectFailed => HooksNamed("merge") = <<>>

\* a text parsed on attempt 0 of 3 returns merge's result
C4_Witness ==
    /\ pc = "done"
    /\ max_retries = 3
    /\ NumResponses = 1
    /\ LastParses
    /\ Len(HooksNamed("merge")) = 1
    /\ result = Some(HooksNamed("merge")[1].ret)

\* C5: an error of inject_tool_calls or merge_special_outputs is fatal on
\* every attempt: generate returns that error on the attempt and the provider
\* is not invoked again, also when attempts remain.
C5_HookErrorFatal ==
    \A i \in 1..Len(hooks) :
        (hooks[i].op \in {"inject", "merge"} /\ ~IsOk(hooks[i].ret))
            => /\ i = Len(hooks)
               /\ pc = "done"
               /\ result = Some(hooks[i].ret)
               /\ hooks[i].attempt = NumResponses - 1
               /\ invocations = NumResponses
               /\ attempt = hooks[i].attempt

\* inject fails on attempt 0 with two attempts left
C5_Witness ==
    /\ pc = "done"
    /\ max_retries = 3
    /\ invocations = 1
    /\ hooks # <<>>
    /\ hooks[Len(hooks)].op = "inject"
    /\ ~IsOk(hooks[Len(hooks)].ret)
    /\ result = Some(hooks[Len(hooks)].ret)

\* C6: a successful provider return that is neither an assistant message
\* with text nor an assistant message with tool calls makes generate return
\* the shape error on that attempt, without retry, also on the first attempt
\* with attempts remaining.
C6_ShapeErrorFatal ==
    LET m == LastResponse.val
        unrecognized ==
            \/ m.role # "Assistant"
            \/ (m.content = None /\ m.tool_calls = None)
    IN  (Handled /\ IsOk(LastResponse) /\ unrecognized)
            => /\ ReturnedOnLast
               /\ result = Some(Err(Error("ShapeError", "shape")))
               /\ HooksOfLast = <<>>
               /\ attempt = NumResponses - 1

\* an assistant message without text and without calls on attempt 0 of 3
C6_Witness ==
    /\ pc = "done"
    /\ max_retries = 3
    /\ NumResponses = 1
    /\ IsOk(LastResponse)
    /\ LastResponse.val = MessageAssistant(None, None)
    /\ result = Some(Err(Error("ShapeError", "shape")))

\* C7 as stated: for an assistant response without text and with tool calls,
\* generate never calls parse, builds the output from an empty JSON object,
\* calls inject_tool_calls with the calls, then merge_special_outputs(output,
\* Some(calls)), and returns that result.
C7_AsStated ==
    (Handled /\ LastIsToolOnly)
        => LET hs == HooksOfLast
               calls == Unwrap(LastCalls)
           IN  /\ ReturnedOnLast
               /\ Len(hs) = 3
               /\ hs[1].op = "from_value"
               /\ hs[2].op = "inject" /\ hs[2].arg = calls
               /\ hs[3].op = "merge"
               /\ hs[3].arg = <<hs[2].ret.val, Some(calls)>>
               /\ result = Some(hs[3].ret)

\* C7 (amended): for an assistant response without text and with tool calls,
\* generate never calls parse: it builds the output from an empty JSON
\* object; when that succeeds it calls inject_tool_calls with the calls; when
\* that succeeds too it calls merge_special_outputs(output, Some(calls)) and
\* returns that result; when the output cannot be built or inject_tool_calls
\* fails, generate returns that error and calls no further hook.
C7_ToolOnlyPath ==
    (Handled /\ LastIsToolOnly)
        => LET hs == HooksOfLast
               calls == Unwrap(LastCalls)
           IN  /\ ReturnedOnLast
               /\ \A i \in 1..Len(hs) : hs[i].op # "parse"
               /\ Len(hs) >= 1
               /\ hs[1].op = "from_value"
               /\ hs[1].ret = FromEmptyObject(signature)
               /\ result = Some(hs[Len(hs)].ret)
               /\ IF ~IsOk(hs[1].ret) THEN Len(hs) = 1
                  ELSE /\ Len(hs) >= 2
                       /\ hs[2].op = "inject"
                       /\ hs[2].arg = calls
                       /\ IF ~IsOk(hs[2].ret) THEN Len(hs) = 2
                          ELSE /\ Len(hs) = 3
                               /\ hs[3].op = "merge"
                               /\ hs[3].arg = <<hs[2].ret.val, Some(calls)>>

\* a tool-only response whose calls end up in the returned output
C7_Witness ==
    /\ pc = "done"
    /\ Handled
    /\ LastIsToolOnly
    /\ signature.inject = "enhanced"
    /\ result = Some(Ok(Outputs(None, LastCalls)))
    /\ Len(HooksOfLast) = 3

\* C8: when extract_history returns a history, every message sequence handed
\* to the provider is the system message, the history in its order, the demo
\* messages in order, the current user message.
C8_HistoryAfterSystem ==
    LET rendered == format_messages_with_schemas(demos)
        hist == Unwrap(inputs.history)
        expected ==
            << rendered[1] >> \o hist
            \o [i \in 1..(Len(rendered) - 1) |-> rendered[i + 1]]
    IN  IsSome(inputs.history)
            => /\ pc # "start" => messages = expected
               /\ \A i \in 1..Len(sent) :
                    /\ sent[i].messages = expected
                    /\ sent[i].messages[1].role = "System"
                    /\ sent[i].messages[Len(expected)] = MessageUser(UserContent(0))

\* a two-message history and a demo, handed to the provider
C8_Witness ==
    /\ IsSome(inputs.history)
    /\ Len(Unwrap(inputs.history)) = 2
    /\ demos >= 1
    /\ sent # <<>>
    /\ sent[1].messages[2] = Unwrap(inputs.history)[1]
    /\ sent[1].messages[3] = Unwrap(inputs.history)[2]
    /\ sent[1].messages[4] = MessageUser(UserContent(1))

\* C9 as stated: whenever the caller's base config carries tools, those base
\* tools are the ones passed to the provider.
C9_AsStated ==
    IsSome(base_config.tools)
        => \A i \in 1..Len(sent) : sent[i].config.tools = base_config.tools

\* C9 (amended): the caller-supplied base tools are passed to the provider
\* only if extract_tools returned none: whenever extract_tools returns
\* tools, those extracted tools are the ones passed to the provider.
C9_ExtractedToolsFirst ==
    \A i \in 1..Len(sent) :
        /\ sent[i].config.model = base_config.model
        /\ IsSome(inputs.tools) => sent[i].config.tools = inputs.tools
        /\ ~IsSome(inputs.tools) => sent[i].config.tools = base_config.tools

\* extracted tools and different base tools: the extracted ones are sent
C9_Witness ==
    /\ IsSome(inputs.tools)
    /\ IsSome(base_config.tools)
    /\ inputs.tools # base_config.tools
    /\ sent # <<>>
    /\ sent[1].config.tools = inputs.tools

\* C10: every Ok value generate returns is the return value of
\* merge_special_outputs, which is called at most once per generate call and
\* only on the attempt that returns; the output it is given comes from the
\* parse (or the empty object) of that same attempt.
C10_OkIsMerged ==
    LET merges == HooksNamed("merge") IN
    /\ Len(merges) <= 1
    /\ merges # <<>>
        => /\ pc = "done"
           /\ hooks[Len(hooks)] = merges[1]
           /\ merges[1].attempt = NumResponses - 1
           /\ result = Some(merges[1].ret)
           /\ \E i \in 1..Len(hooks) :
                /\ hooks[i].op \in {"parse", "from_value"}
                /\ hooks[i].attempt = merges[1].attempt
                /\ IsOk(hooks[i].ret)
                /\ merges[1].arg[1].answer = hooks[i].ret.val.answer
    /\ (result # None /\ IsOk(Unwrap(result)))
        => /\ merges # <<>>
           /\ result = Some(merges[1].ret)
    /\ \A i \in 1..Len(hooks) :
        (hooks[i].op = "parse" /\ hooks[i].attempt < NumResponses - 1)
            => ~IsOk(hooks[i].ret)

\* a parse failure on attempt 0 and a merged output returned on attempt 1
C10_Witness ==
    /\ pc = "done"
    /\ NumResponses = 2
    /\ hooks # <<>>
    /\ hooks[1].op = "parse"
    /\ ~IsOk(hooks[1].ret)
    /\ result # None
    /\ IsOk(Unwrap(result))
    /\ Len(HooksNamed("merge")) = 1

\* C19: retries within one generate call are sequential: at most one
\* provider invocation is outstanding at any time, and invocation n + 1
\* starts only after invocation n returned a provider error or a text that
\* failed to parse.
C19_SequentialRetries ==
    /\ outstanding \in {0, 1}
    /\ invocations = NumResponses + outstanding
    /\ (outstanding = 1) <=> (pc = "awaiting")
    /\ \A n \in 1..(invocations - 1) :
        \/ ~IsOk(responses[n])
        \/ /\ IsTextResponse(responses[n].val)
           /\ ~IsOk(parse(Unwrap(responses[n].val.content)))

\* the second invocation is pending, the first has returned
C19_Witness ==
    /\ invocations = 2
    /\ outstanding = 1
    /\ NumResponses = 1

\* every invocation so far was handed the message list and the config as
\* they are now
SentIsCurrent ==
    \A i \in 1..Len(sent) :
        /\ sent[i].messages = messages
        /\ sent[i].config = config

\* C20: after rendering and history splicing, generate never writes to the
\* shared message list: every attempt hands the provider the same message
\* sequence and the same config, and nothing (no error text, no previous
\* response) is appended between attempts.
C20_MessagesFrozen ==
    /\ []SentIsCurrent
    /\ [][pc # "start" => (messages' = messages /\ config' = config)]_vars

\* three invocations after two logged failures, all with the same messages
C20_Witness ==
    /\ invocations = 3
    /\ Len(log) = 2
    /\ sent[1] = sent[3]
    /\ sent[3].messages = messages

\* ======================================================================
\* Schema reflection (adapters/schema_parser.rs)
\* ======================================================================
\* the decimal digits of a natural number
Digits == <<"0", "1", "2", "3", "4", "5", "6", "7", "8", "9">>
RECURSIVE NatChars(_)
NatChars(n) ==
    IF n < 10 THEN <<Digits[n + 1]>>
    ELSE NatChars(n \div 10) \o <<Digits[(n % 10) + 1]>>

\* serde_json::Value.  A Number is a u64 or a negative i64, held by its
\* decimal digits, or a finite f64, held by the digits (no final 0) and the
\* exponent of its shortest decimal, digits * 10^e; 0.0 and -0.0 have the
\* digit 0 and e = 0
JNull == [t |-> "null"]
JBool(b) == [t |-> "bool", b |-> b]
JInt(neg, digits) == [t |-> "num", neg |-> neg, digits |-> digits]
JFloat(neg, digits, e) ==
    [t |-> "float", neg |-> neg, digits |-> digits, e |-> e]
JNum(n) == JInt(n < 0, NatChars(IF n < 0 THEN 0 - n ELSE n))
JStr(s) == [t |-> "str", s |-> s]
JArr(items) == [t |-> "arr", items |-> items]
JObj(f) == [t |-> "obj", members |-> f]

\* the object with no member
EmptyMap == [k \in {} |-> JNull]

\* Value::get(key): None unless the value is an object holding the key
JGet(value, key) ==
    IF value.t = "obj" /\ key \in DOMAIN value.members
    THEN Some(value.members[key]) ELSE None

\* iter().filter_map(|v| v.as_str()): the string items of an array, in order
StrItems(items) ==
    LET strs == SelectSeq(items, LAMBDA x : x.t = "str")
    IN  [i \in 1..Len(strs) |-> strs[i].s]

\* [String]::join(sep)
RECURSIVE StrJoin(_, _)
StrJoin(strs, sep) ==
    IF strs = <<>> THEN ""
    ELSE IF Len(strs) = 1 THEN strs[1]
    ELSE strs[1] \o sep \o StrJoin(Tail(strs), sep)

\* the match on the type string
TypeLabel(type_str) ==
    CASE type_str = "string" -> "String"
      [] type_str = "number" -> "Number"
      [] type_str = "integer" -> "Integer"
      [] type_str = "boolean" -> "Boolean"
      [] type_str = "array" -> "Array"
      [] type_str = "object" -> "Object"
      [] type_str = "null" -> "Null"
      [] OTHER -> type_str

\* the composite and reference checks, and the fallback
CompositeLabel(field_json) ==
    IF IsSome(JGet(field_json, "anyOf")) THEN "AnyOf"
    ELSE IF IsSome(JGet(field_json, "oneOf")) THEN "OneOf"
    ELSE IF IsSome(JGet(field_json, "allOf")) THEN "AllOf"
    ELSE IF IsSome(JGet(field_json, "$ref")) THEN "Reference"
    ELSE "Unknown"

\* extract_type_name_from_json
extract_type_name_from_json(field_json) ==
    LET type_value == JGet(field_json, "type") IN
    IF IsSome(type_value) /\ Unwrap(type_value).t = "str"
    THEN TypeLabel(Unwrap(type_value).s)
    ELSE IF IsSome(type_value) /\ Unwrap(type_value).t = "arr"
    THEN StrJoin(StrItems(Unwrap(type_value).items), " | ")
    ELSE CompositeLabel(field_json)

\* ---------------------------------------------- field schema nodes tried
TypeValues ==
    { JStr(x) : x \in {"string", "number", "integer", "boolean", "array",
                       "object", "null", "float", "String"} }
    \cup { JArr(<<JStr("string"), JStr("null")>>), JArr(<<JStr("integer")>>),
           JArr(<<>>), JArr(<<JNum(1), JStr("null")>>), JNum(7), JNull }

OtherKeys == {"anyOf", "oneOf", "allOf", "$ref", "description"}

\* a node with the given type (None: no "type" key) and the given other keys
FieldNode(type, keys) ==
    JObj([k \in keys \cup (IF IsSome(type) THEN {"type"} ELSE {}) |->
            IF k = "type" THEN Unwrap(type)
            ELSE IF k = "description" THEN JStr("text")
            ELSE IF k = "$ref" THEN JStr("#/$defs/T")
            ELSE JArr(<<>>)])

FieldNodes ==
    { FieldNode(type, keys) :
        type \in {None} \cup { Some(x) : x \in TypeValues },
        keys \in SUBSET OtherKeys }
    \cup { JStr("string"), JBool(TRUE), JArr(<<>>) }

\* generate is not running
GenerateIdle ==
    /\ max_retries = 0
    /\ demos = 0
    /\ inputs = [history |-> None, tools |-> None]
    /\ base_config = [model |-> "m", tools |-> None]
    /\ signature = [inject |-> "default", merge |-> "identity",
                    outputs_default |-> TRUE]
    /\ pc = "idle"
    /\ messages = <<>>
    /\ config = base_config
    /\ attempt = 0
    /\ invocations = 0
    /\ outstanding = 0
    /\ sent = <<>>
    /\ responses = <<>>
    /\ hooks = <<>>
    /\ log = <<>>
    /\ result = None

generateVars == <<params, pc, messages, config, attempt, invocations,
                  outstanding, sent, responses, hooks, log, result>>

\* --------------------------------------------- specification TypeNameSpec
TypeNameInit ==
    /\ GenerateIdle
    /\ fn_in \in FieldNodes
    /\ fn_out = None

ExtractTypeName ==
    /\ fn_out = None
    /\ fn_out' = Some(extract_type_name_from_json(fn_in))
    /\ UNCHANGED <<fn_in, generateVars>>

TypeNameNext == ExtractTypeName

TypeNameSpec == TypeNameInit /\ [][TypeNameNext]_vars

ClosedLabels ==
    {"String", "Number", "Integer", "Boolean", "Array", "Object", "Null",
     "AnyOf", "OneOf", "AllOf", "Reference", "Unknown"}

NodeType == JGet(fn_in, "type")
TypeIsStr == IsSome(NodeType) /\ Unwrap(NodeType).t = "str"
TypeIsArr == IsSome(NodeType) /\ Unwrap(NodeType).t = "arr"
KnownTypeStrings ==
    {"string", "number", "integer", "boolean", "array", "object", "null"}

\* C15 as stated: every node yields exactly one of the twelve labels, and a
\* node whose type is an unrecognized string or a list of types yields
\* Unknown.
C15_AsStated ==
    IsSome(fn_out)
        => /\ Unwrap(fn_out) \in ClosedLabels
           /\ (TypeIsStr /\ Unwrap(NodeType).s \notin KnownTypeStrings)
                => Unwrap(fn_out) = "Unknown"
           /\ TypeIsArr => Unwrap(fn_out) = "Unknown"

\* ======================================================================
\* Text (a &str is the sequence of its characters, one string each)
\* ======================================================================
\* char::is_whitespace: the characters with the property White_Space
IsWhitespace(c) ==
    c \in {"\t", "\n", "U+000B", "\f", "\r", " ", "U+0085", "U+00A0", "U+1680",
           "U+2000", "U+2001", "U+2002", "U+2003", "U+2004", "U+2005",
           "U+2006", "U+2007", "U+2008", "U+2009", "U+200A", "U+2028",
           "U+2029", "U+202F", "U+205F", "U+3000"}

\* str::trim_start / trim_end / trim
RECURSIVE TrimStart(_)
TrimStart(s) ==
    IF s # <<>> /\ IsWhitespace(s[1]) THEN TrimStart(Tail(s)) ELSE s

RECURSIVE TrimEnd(_)
TrimEnd(s) ==
    IF s # <<>> /\ IsWhitespace(s[Len(s)])
    THEN TrimEnd(SubSeq(s, 1, Len(s) - 1)) ELSE s

Trim(s) == TrimEnd(TrimStart(s))

\* s.chars().skip(n): s without its first n characters
Skip(s, n) == SubSeq(s, n + 1, Len(s))

\* the sum of values[lo..hi]
RECURSIVE Sum(_, _, _)
Sum(values, lo, hi) ==
    IF lo > hi THEN 0
    ELSE IF lo = hi THEN values[lo]
    ELSE Sum(values, lo, (lo + hi) \div 2)
           + Sum(values, ((lo + hi) \div 2) + 1, hi)

\* s.starts_with(prefix)
StartsWith(s, prefix) ==
    /\ Len(prefix) <= Len(s)
    /\ SubSeq(s, 1, Len(prefix)) = prefix

\* offset of the first "\n" of s, Len(s) when it has none
RECURSIVE LineEnd(_)
LineEnd(s) ==
    IF s = <<>> \/ s[1] = "\n" THEN 0 ELSE 1 + LineEnd(Tail(s))

\* a line without its terminator: "\n" is cut already, a "\r" before it goes
StripCR(line) ==
    IF line # <<>> /\ line[Len(line)] = "\r"
    THEN SubSeq(line, 1, Len(line) - 1) ELSE line

\* str::lines: the lines of s; a final line terminator opens no empty line
RECURSIVE Lines(_)
Lines(s) ==
    IF s = <<>> THEN <<>>
    ELSE LET n == LineEnd(s) IN
         IF n = Len(s) THEN <<s>>
         ELSE <<StripCR(SubSeq(s, 1, n))>> \o Lines(Skip(s, n + 1))

\* [String]::join(sep) on texts
RECURSIVE Join(_, _)
Join(parts, sep) ==
    IF parts = <<>> THEN <<>>
    ELSE IF Len(parts) = 1 THEN parts[1]
    ELSE parts[1] \o sep \o Join(Tail(parts), sep)

\* the characters of the strings the adapters write
Chars ==
    [answer |-> <<"a", "n", "s", "w", "e", "r">>,
     data |-> <<"d", "a", "t", "a">>,
     completed |-> <<"c", "o", "m", "p", "l", "e", "t", "e", "d">>,
     query |-> <<"q", "u", "e", "r", "y">>,
     context |-> <<"c", "o", "n", "t", "e", "x", "t">>,
     true |-> <<"t", "r", "u", "e">>,
     false |-> <<"f", "a", "l", "s", "e">>,
     null |-> <<"n", "u", "l", "l">>]

\* the index of each character of a sequence of distinct characters
IndexIn(chars) ==
    [c \in { chars[i] : i \in 1..Len(chars) } |->
        CHOOSE i \in 1..Len(chars) : chars[i] = c]
DigitIndex == IndexIn(Digits)
IsDigit(c) == c \in DOMAIN DigitIndex
DigitValue(c) == DigitIndex[c] - 1

\* the characters U+0000..U+001F in code point order; a character that a
\* string of this notation cannot hold is written by its code point name
Controls ==
    <<
      "U+0000", "U+0001", "U+0002", "U+0003", "U+0004", "U+0005", "U+0006", "U+0007",
      "U+0008", "\t", "\n", "U+000B", "\f", "\r", "U+000E", "U+000F",
      "U+0010", "U+0011", "U+0012", "U+0013", "U+0014", "U+0015", "U+0016", "U+0017",
      "U+0018", "U+0019", "U+001A", "U+001B", "U+001C", "U+001D", "U+001E", "U+001F" >>
ControlIndex == IndexIn(Controls)
IsControl(c) == c \in DOMAIN ControlIndex

\* the characters U+0020..U+007E in code point order (U+0060 by name)
Printable ==
    <<
      " ", "!", "\"", "#", "$", "%", "&", "'", "(", ")", "*", "+",
      ",", "-", ".", "/", "0", "1", "2", "3", "4", "5", "6", "7",
      "8", "9", ":", ";", "<", "=", ">", "?", "@", "A", "B", "C",
      "D", "E", "F", "G", "H", "I", "J", "K", "L", "M", "N", "O",
      "P", "Q", "R", "S", "T", "U", "V", "W", "X", "Y", "Z", "[",
      "\\", "]", "^", "_", "U+0060", "a", "b", "c", "d", "e", "f", "g",
      "h", "i", "j", "k", "l", "m", "n", "o", "p", "q", "r", "s",
      "t", "u", "v", "w", "x", "y", "z", "{", "|", "}", "~" >>

\* the characters used, in code point order: a character of code c < 127 is
\* Alphabet[c + 1]; any other is written by its code point name, "U+00E9"
Alphabet == Controls \o Printable

HexLower == Digits \o <<"a", "b", "c", "d", "e", "f">>
HexUpper == Digits \o <<"A", "B", "C", "D", "E", "F">>
HexLowerIndex == IndexIn(HexLower)
HexUpperIndex == IndexIn(HexUpper)
IsHex(c) == c \in DOMAIN HexLowerIndex \cup DOMAIN HexUpperIndex
HexValue(c) ==
    IF c \in DOMAIN HexLowerIndex THEN HexLowerIndex[c] - 1
    ELSE HexUpperIndex[c] - 1

\* the code point name of a character outside Alphabet: at least 4 digits
RECURSIVE HexName(_, _)
HexName(n, width) ==
    IF n = 0 /\ width <= 0 THEN ""
    ELSE HexName(n \div 16, width - 1) \o HexUpper[(n % 16) + 1]

\* char::from_u32 and its inverse
CharOf(code) ==
    IF code < Len(Alphabet) THEN Alphabet[code + 1] ELSE "U+" \o HexName(code, 4)
AlphabetIndex == IndexIn(Alphabet)
CodeOf(c) ==
    IF c \in DOMAIN AlphabetIndex THEN AlphabetIndex[c] - 1
    ELSE CHOOSE n \in Len(Alphabet)..1114111 : CharOf(n) = c
CharRank(c) == CodeOf(c) + 1

\* char::len_utf8
Utf8LenOf(code) ==
    IF code < 128 THEN 1
    ELSE IF code < 2048 THEN 2
    ELSE IF code < 65536 THEN 3
    ELSE 4
Utf8Len(c) == Utf8LenOf(CodeOf(c))

\* str::char_indices, and the length: the byte offset each character of s
\* starts at, then the one s ends at
Offsets(lens) == [k \in 1..(Len(lens) + 1) |-> Sum(lens, 1, k - 1)]
CharIndices(s) == Offsets([i \in 1..Len(s) |-> Utf8Len(s[i])])

\* str::len: the bytes of the UTF-8 encoding of s
ByteLen(s) == CharIndices(s)[Len(s) + 1]

\* str::is_char_boundary, by the offsets of the characters
IsBoundary(indices, index) == \E k \in 1..Len(indices) : indices[k] = index
IsCharBoundary(s, index) == IsBoundary(CharIndices(s), index)

\* a panic of the thread
Panic == [kind |-> "Panic"]

\* s from the byte offset of a boundary on
SliceAt(s, indices, from) ==
    IF IsBoundary(indices, from)
    THEN Ok(Skip(s, (CHOOSE k \in 1..Len(indices) : indices[k] = from) - 1))
    ELSE Panic

\* &s[from..] with a byte offset: a panic when the offset is inside a
\* character or past the end
SliceFrom(s, from) == SliceAt(s, CharIndices(s), from)

\* ======================================================================
\* serde_json on text: from_str::<Value> and to_string_pretty
\* ======================================================================
\* the outcome of reading one construct: what was read and what is left
Read(val, rest) == [ok |-> TRUE, val |-> val, rest |-> rest]
NoRead == [ok |-> FALSE]

\* the whitespace of JSON, skipped between tokens
RECURSIVE SkipWhitespace(_)
SkipWhitespace(s) ==
    IF s # <<>> /\ s[1] \in {" ", "\n", "\t", "\r"}
    THEN SkipWhitespace(Tail(s)) ELSE s

\* the four hex digits of a \u escape
ReadHex4(s) ==
    IF Len(s) < 4 \/ \E i \in 1..4 : ~IsHex(s[i]) THEN NoRead
    ELSE Read(4096 * HexValue(s[1]) + 256 * HexValue(s[2])
                + 16 * HexValue(s[3]) + HexValue(s[4]), Skip(s, 4))

\* the trailing surrogate of a pair, after the leading one
ReadTrailSurrogate(n1, n2) ==
    IF ~n2.ok THEN NoRead
    ELSE IF n2.val \notin 56320..57343 THEN NoRead
    ELSE Read(CharOf(65536 + (n1.val - 55296) * 1024 + (n2.val - 56320)),
              n2.rest)

\* the character of a \uXXXX escape whose hex digits were read as n1: a
\* leading surrogate needs its trailing one, a lone surrogate is an error
ReadUnicode(n1) ==
    IF ~n1.ok THEN NoRead
    ELSE IF n1.val \in 56320..57343 THEN NoRead
    ELSE IF n1.val \in 55296..56319 THEN
        IF ~StartsWith(n1.rest, <<"\\", "u">>) THEN NoRead
        ELSE ReadTrailSurrogate(n1, ReadHex4(Skip(n1.rest, 2)))
    ELSE Read(CharOf(n1.val), n1.rest)

\* the escape after a backslash: \" \\ \/ \b \f \n \r \t, and \uXXXX
ReadEscape(s) ==
    IF s = <<>> THEN NoRead
    ELSE IF s[1] \in {"\"", "\\", "/"} THEN Read(s[1], Tail(s))
    ELSE IF s[1] = "b" THEN Read(CharOf(8), Tail(s))
    ELSE IF s[1] = "f" THEN Read("\f", Tail(s))
    ELSE IF s[1] = "n" THEN Read("\n", Tail(s))
    ELSE IF s[1] = "r" THEN Read("\r", Tail(s))
    ELSE IF s[1] = "t" THEN Read("\t", Tail(s))
    ELSE IF s[1] = "u" THEN ReadUnicode(ReadHex4(Tail(s)))
    ELSE NoRead

\* the body of a string after its opening quote, up to the closing one; a
\* raw control character is an error
RECURSIVE ReadStringBody(_, _)
RECURSIVE ReadAfterEscape(_, _)
ReadStringBody(s, acc) ==
    IF s = <<>> THEN NoRead
    ELSE IF s[1] = "\"" THEN Read(acc, Tail(s))
    ELSE IF s[1] = "\\" THEN ReadAfterEscape(ReadEscape(Tail(s)), acc)
    ELSE IF IsControl(s[1]) THEN NoRead
    ELSE ReadStringBody(Tail(s), Append(acc, s[1]))

\* the string goes on after an escape that was read
ReadAfterEscape(escape, acc) ==
    IF escape.ok THEN ReadStringBody(escape.rest, Append(acc, escape.val))
    ELSE NoRead

\* ======================================================================
\* Natural numbers of any size (u64, the significand of an f64, the powers
\* of ten): the limbs of base 2^12, the least one first, no leading zero
\* ======================================================================
LimbBase == 2^12

BigTrim(a) ==
    IF \A i \in 1..Len(a) : a[i] = 0 THEN <<>>
    ELSE SubSeq(a, 1, CHOOSE i \in 1..Len(a) :
                          a[i] # 0 /\ \A j \in (i + 1)..Len(a) : a[j] = 0)

\* the carries of values[lo..hi] taken from limb to limb, the range halved;
\* comparing s has the lower half done before the upper one is begun
RECURSIVE CarryRange(_, _, _, _)
CarryRange(values, s, lo, hi) ==
    IF s # s \/ lo > hi THEN s
    ELSE IF lo = hi
    THEN [carry |-> (values[lo] + s.carry) \div LimbBase,
          acc |-> Append(s.acc, (values[lo] + s.carry) % LimbBase)]
    ELSE CarryRange(values, CarryRange(values, s, lo, (lo + hi) \div 2),
                    ((lo + hi) \div 2) + 1, hi)

\* the number whose limbs, before the carries, are the values; the last
\* value leaves no carry
Normalized(values) ==
    BigTrim(CarryRange(values, [carry |-> 0, acc |-> <<>>], 1, Len(values)).acc)

BigOf(n) == Normalized(<<n, 0, 0>>)

Limb(a, i) == IF i \in 1..Len(a) THEN a[i] ELSE 0

Longer(a, b) == IF Len(a) > Len(b) THEN Len(a) ELSE Len(b)

BigAdd(a, b) ==
    Normalized([i \in 1..(Longer(a, b) + 1) |-> Limb(a, i) + Limb(b, i)])

\* a - b, for a >= b
BigSub(a, b) == Normalized([i \in 1..(Len(a) + 1) |-> Limb(a, i) - Limb(b, i)])

\* -1, 0 or 1 as a is less than, equal to or greater than b
BigCmp(a, b) ==
    IF Len(a) # Len(b) THEN (IF Len(a) < Len(b) THEN -1 ELSE 1)
    ELSE IF a = b THEN 0
    ELSE IF \E i \in 1..Len(a) :
                a[i] < b[i] /\ \A j \in (i + 1)..Len(a) : a[j] = b[j]
    THEN -1 ELSE 1

BigLess(a, b) == BigCmp(a, b) < 0

\* a * k, for a k up to 2^18
BigMulSmall(a, k) == Normalized([i \in 1..(Len(a) + 2) |-> Limb(a, i) * k])

\* a * base^n
BigShiftLimbs(a, n) == IF a = <<>> THEN <<>> ELSE [i \in 1..n |-> 0] \o a

\* the products of limbs that meet in limb i of a * b, for b the shorter
Products(a, b, i) == [j \in 1..Len(b) |-> Limb(a, i + 1 - j) * b[j]]

MulLonger(a, b) ==
    Normalized([i \in 1..(Len(a) + Len(b) + 1) |->
                    Sum(Products(a, b, i), 1, Len(b))])

BigMul(a, b) == IF Len(a) < Len(b) THEN MulLonger(b, a) ELSE MulLonger(a, b)

\* a * 2^n
BigShl(a, n) == BigShiftLimbs(BigMulSmall(a, 2^(n % 12)), n \div 12)

\* the number of bits of a
BigBitLen(a) ==
    IF a = <<>> THEN 0
    ELSE 12 * (Len(a) - 1)
           + (CHOOSE k \in 1..12 : 2^(k - 1) <= a[Len(a)] /\ a[Len(a)] < 2^k)

BigIsOdd(a) == a # <<>> /\ a[1] % 2 = 1

\* a number below 2^24 as an integer
BigSmall(a) == Limb(a, 1) + LimbBase * Limb(a, 2)

\* one bit of a quotient: whether the divisor times 2^bit goes into what
\* is left
BigDivBit(s, shifted) ==
    IF BigLess(s.r, shifted) THEN [q |-> BigMulSmall(s.q, 2), r |-> s.r]
    ELSE [q |-> BigAdd(BigMulSmall(s.q, 2), <<1>>), r |-> BigSub(s.r, shifted)]

\* the bits hi down to lo of a quotient, the range halved; comparing s
\* has the higher bits done before the lower ones are begun
RECURSIVE BigDivBits(_, _, _, _)
BigDivBits(q, s, hi, lo) ==
    IF s # s \/ hi < lo THEN s
    ELSE IF hi = lo THEN BigDivBit(s, BigShl(q, hi))
    ELSE BigDivBits(q, BigDivBits(q, s, hi, ((lo + hi) \div 2) + 1),
                    (lo + hi) \div 2, lo)

\* quotient and remainder of p by q > 0, the highest bit first
BigDivMod(p, q) ==
    IF BigLess(p, q) THEN [q |-> <<>>, r |-> p]
    ELSE BigDivBits(q, [q |-> <<>>, r |-> p], BigBitLen(p) - BigBitLen(q), 0)

\* the number a run of decimal digits writes, and the digits of a number
RECURSIVE BigFromDigits(_)
BigFromDigits(digits) ==
    IF digits = <<>> THEN <<>>
    ELSE BigAdd(BigMulSmall(BigFromDigits(SubSeq(digits, 1, Len(digits) - 1)), 10),
                BigOf(DigitValue(digits[Len(digits)])))

RECURSIVE BigDigits(_)
BigDigitsStep(d) == Append(BigDigits(d.q), Digits[BigSmall(d.r) + 1])
BigDigits(a) == IF a = <<>> THEN <<>> ELSE BigDigitsStep(BigDivMod(a, <<10>>))

BigChars(a) == IF a = <<>> THEN <<"0">> ELSE BigDigits(a)

BigSquare(a) == BigMul(a, a)

RECURSIVE BigPow10(_)
BigPow10(k) ==
    IF k < 6 THEN BigOf(10^k)
    ELSE IF k % 2 = 0 THEN BigSquare(BigPow10(k \div 2))
    ELSE BigMulSmall(BigPow10(k - 1), 10)

\* ======================================================================
\* f64 (IEEE 754 binary64): a finite magnitude is m * 2^e with m below
\* 2^53, and at least 2^52 unless e = -1074; zero has m = 0 and e = 0
\* ======================================================================
F64(m, e) == [inf |-> FALSE, m |-> m, e |-> e]
F64Zero == F64(<<>>, 0)
F64Infinite == [inf |-> TRUE, m |-> <<>>, e |-> 0]

\* a magnitude of 2^1024 or more is infinite
F64Finite(m, e) ==
    IF m = <<>> THEN F64Zero
    ELSE IF BigBitLen(m) + e > 1024 THEN F64Infinite
    ELSE F64(m, e)

\* a significand that rounding carried to 2^53 is 2^52 of the next exponent
F64Rounded(m, e) ==
    F64Finite(IF BigBitLen(m) > 53 THEN BigShl(<<1>>, 52) ELSE m,
              IF BigBitLen(m) > 53 THEN e + 1 ELSE e)

\* round to nearest, ties to even: the quotient goes up when the remainder
\* is more than half the divisor, or is half of it and the quotient is odd
RoundsUp(q, half) == half > 0 \/ (half = 0 /\ BigIsOdd(q))

\* a remainder against half the divisor: -1 below, 0 equal, 1 above
HalfCmp(r, den) == BigCmp(BigMulSmall(r, 2), den)

RECURSIVE RoundScaled(_, _, _)

RoundQuotient(p, q, e, d, half) ==
    IF BigBitLen(d.q) > 53 THEN RoundScaled(p, q, e + 1)
    ELSE F64Rounded(IF RoundsUp(d.q, half) THEN BigAdd(d.q, <<1>>) ELSE d.q, e)

RoundRemainder(p, q, e, d, den) ==
    RoundQuotient(p, q, e, d, HalfCmp(d.r, den))

RoundDivide(p, q, e, num, den) ==
    RoundRemainder(p, q, e, BigDivMod(num, den), den)

\* the f64 nearest to p / q, its significand the quotient of p by q * 2^e
RoundScaled(p, q, e) ==
    RoundDivide(p, q, e, IF e < 0 THEN BigShl(p, 0 - e) ELSE p,
                IF e > 0 THEN BigShl(q, e) ELSE q)

\* the exponent that leaves the quotient 53 or 54 bits, -1074 at least
RoundExponent(p, q) ==
    IF BigBitLen(p) - BigBitLen(q) - 53 < -1074 THEN -1074
    ELSE BigBitLen(p) - BigBitLen(q) - 53

\* the f64 nearest to p / q
RoundRatio(p, q) ==
    IF p = <<>> THEN F64Zero ELSE RoundScaled(p, q, RoundExponent(p, q))

\* the f64 nearest to n * 2^e / d
RoundBinary(n, e, d) ==
    RoundRatio(IF e > 0 THEN BigShl(n, e) ELSE n,
               IF e < 0 THEN BigShl(d, 0 - e) ELSE d)

\* n as f64
F64FromInteger(n) == RoundRatio(n, <<1>>)

\* f * g when up, f / g otherwise, of finite f and g
F64Scale(f, up, g) ==
    RoundBinary(IF up THEN BigMul(f.m, g.m) ELSE f.m,
                IF up THEN f.e + g.e ELSE f.e - g.e,
                IF up THEN <<1>> ELSE g.m)

\* POW10[k], the f64 written 1e0 .. 1e308
POW10(k) == F64FromInteger(BigPow10(k))

\* POW10.get(exponent.wrapping_abs() as usize) is Some
InTable(exponent) == -308 <= exponent /\ exponent <= 308

\* the loop of f64_from_parts on f = significand as f64: one multiplication
\* or division by POW10[|exponent|], after divisions by 1e308 while the
\* exponent is past the table; an infinite product and a positive exponent
\* past the table are the error "number out of range"
RECURSIVE ScaleByPow10(_, _)
ScaleOn(f, exponent) ==
    IF InTable(exponent) THEN f ELSE ScaleByPow10(f, exponent + 308)

ScaleByPow10(f, exponent) ==
    IF ~InTable(exponent) /\ f.m = <<>> THEN f
    ELSE IF ~InTable(exponent) /\ exponent >= 0 THEN F64Infinite
    ELSE ScaleOn(F64Scale(f, exponent >= 0,
                          POW10(IF ~InTable(exponent) THEN 308
                                ELSE IF exponent < 0 THEN 0 - exponent
                                ELSE exponent)),
                 exponent)

\* ----------------------------------------------------------------------
\* the shortest decimal that reads back as an f64 (what ryu and zmij write)
\* ----------------------------------------------------------------------
\* the f64 below f is nearer than the one above: f is a power of two
LowerIsCloser(f) == f.m = BigShl(<<1>>, 52) /\ f.e > -1074

\* f and the midpoints to its neighbours, in quarters of 2^f.e: the lower
\* midpoint, f, the upper midpoint
Quarters(f) ==
    <<BigSub(BigMulSmall(f.m, 4), IF LowerIsCloser(f) THEN <<1>> ELSE <<2>>),
      BigMulSmall(f.m, 4),
      BigAdd(BigMulSmall(f.m, 4), <<2>>)>>

\* n quarters of 2^f.e in units of 10^k are QuarterNum / QuarterDen
QuarterNum(n, f, scale) ==
    BigMul(IF f.e > 2 THEN BigShl(n, f.e - 2) ELSE n, scale)
QuarterDen(f, k) ==
    BigMul(IF f.e < 2 THEN BigShl(<<1>>, 2 - f.e) ELSE <<1>>,
           IF k > 0 THEN BigPow10(k) ELSE <<1>>)

\* a power of ten that leaves f 18 digits or more before the point
FinestExponent(f) == (((BigBitLen(f.m) + f.e - 1) * 30103) \div 100000) - 18

\* the least and the greatest integer of an interval whose ends are the
\* quotients with remainder lo and hi, the ends in or out
LeastIn(lo, closed) ==
    IF closed /\ lo.r = <<>> THEN lo.q ELSE BigAdd(lo.q, <<1>>)
GreatestIn(hi, closed) ==
    IF closed \/ hi.r # <<>> THEN hi.q ELSE BigSub(hi.q, <<1>>)

\* one digit fewer: the part cut off against a half (-1 below, 0 a half,
\* 1 above) and whether it is zero
HalfAfter(digit, zero) ==
    IF digit < 5 THEN -1 ELSE IF digit > 5 THEN 1 ELSE IF zero THEN 0 ELSE 1

\* of c and next = c + 1 the one in lo..hi nearest to the value, the even
\* one on a tie
NearestIn(lo, hi, c, next, half) ==
    IF BigLess(c, lo) THEN next
    ELSE IF BigLess(hi, next) THEN c
    ELSE IF half < 0 THEN c
    ELSE IF half > 0 THEN next
    ELSE IF BigIsOdd(c) THEN next ELSE c

RECURSIVE Shorten(_, _, _, _, _, _)

\* digits are cut while a decimal of fewer digits is still in lo..hi;
\* tenths are the quotients by ten of lo - 1, hi and c
ShortenStep(lo, hi, c, half, zero, k, tenths) ==
    IF BigLess(tenths[2].q, BigAdd(tenths[1].q, <<1>>))
    THEN [digits |-> BigChars(NearestIn(lo, hi, c, BigAdd(c, <<1>>), half)),
          e |-> k]
    ELSE Shorten(BigAdd(tenths[1].q, <<1>>), tenths[2].q, tenths[3].q,
                 HalfAfter(BigSmall(tenths[3].r), zero),
                 zero /\ tenths[3].r = <<>>, k + 1)

Shorten(lo, hi, c, half, zero, k) ==
    ShortenStep(lo, hi, c, half, zero, k,
                [i \in 1..3 |->
                    BigDivMod(<<BigSub(lo, <<1>>), hi, c>>[i], <<10>>)])

\* d are the quotients with remainder of the lower midpoint, of f and of
\* the upper midpoint
ShortestBetween(k, closed, d, den) ==
    Shorten(LeastIn(d[1], closed), GreatestIn(d[3], closed), d[2].q,
            HalfCmp(d[2].r, den), d[2].r = <<>>, k)

ShortestOver(k, closed, nums, den) ==
    ShortestBetween(k, closed, [i \in 1..3 |-> BigDivMod(nums[i], den)], den)

ShortestScaled(f, k, quarters, scale) ==
    ShortestOver(k, ~BigIsOdd(f.m),
                 [i \in 1..3 |-> QuarterNum(quarters[i], f, scale)],
                 QuarterDen(f, k))

ShortestAt(f, k) ==
    ShortestScaled(f, k, Quarters(f),
                   IF k < 0 THEN BigPow10(0 - k) ELSE <<1>>)

\* the digits and the exponent of the shortest decimal between the
\* midpoints to the neighbours of a finite f > 0, nearest to f
ShortestDecimal(f) == ShortestAt(f, FinestExponent(f))

U64Max == BigSub(BigShl(<<1>>, 64), <<1>>)

\* significand * 10 + digit, and overflow!(significand * 10 + digit,
\* u64::MAX)
Extended(significand, c) ==
    BigAdd(BigMulSmall(significand, 10), BigOf(DigitValue(c)))
Overflows(significand, c) == BigLess(U64Max, Extended(significand, c))

\* where the number parser ends: at an integer (parse_number's last arm),
\* at a call of f64_from_parts(positive, significand, exponent), or at the
\* zero of parse_exponent_overflow; the sign is put on afterwards
IntegerParts(significand, rest) ==
    [ok |-> TRUE, kind |-> "integer", significand |-> significand,
     exponent |-> 0, rest |-> rest]
FloatParts(significand, exponent, rest) ==
    [ok |-> TRUE, kind |-> "float", significand |-> significand,
     exponent |-> exponent, rest |-> rest]
ZeroParts(rest) ==
    [ok |-> TRUE, kind |-> "zero", significand |-> <<>>, exponent |-> 0,
     rest |-> rest]

\* while let b'0'..=b'9' = peek { eat_char }
RECURSIVE SkipDigits(_)
SkipDigits(s) == IF s # <<>> /\ IsDigit(s[1]) THEN SkipDigits(Tail(s)) ELSE s

\* i32::saturating_add and saturating_sub of an exp >= 0
SaturatingAdd(starting_exp, exp) ==
    IF starting_exp > 0 /\ exp > 2147483647 - starting_exp THEN 2147483647
    ELSE starting_exp + exp
SaturatingSub(starting_exp, exp) ==
    IF starting_exp < 0 /\ exp > 2147483647 + (starting_exp + 1)
    THEN (0 - 2147483647) - 1
    ELSE starting_exp - exp

\* parse_exponent_overflow: an error unless the number is zero or tiny
ParseExponentOverflow(zero_significand, positive_exp, s) ==
    IF ~zero_significand /\ positive_exp THEN NoRead
    ELSE ZeroParts(SkipDigits(s))

\* parse_exponent, the digits after the first: exp is an i32
RECURSIVE ReadExponent(_, _, _, _, _)
ReadExponent(significand, starting_exp, positive_exp, exp, s) ==
    IF s # <<>> /\ IsDigit(s[1])
    THEN IF /\ exp >= 2147483647 \div 10
            /\ \/ exp > 2147483647 \div 10
               \/ DigitValue(s[1]) > 2147483647 % 10
         THEN ParseExponentOverflow(significand = <<>>, positive_exp, Tail(s))
         ELSE ReadExponent(significand, starting_exp, positive_exp,
                           exp * 10 + DigitValue(s[1]), Tail(s))
    ELSE FloatParts(significand,
                    IF positive_exp THEN SaturatingAdd(starting_exp, exp)
                    ELSE SaturatingSub(starting_exp, exp), s)

\* parse_exponent, after the sign: at least one digit
ExponentDigits(significand, starting_exp, positive_exp, s) ==
    IF s = <<>> \/ ~IsDigit(s[1]) THEN NoRead
    ELSE ReadExponent(significand, starting_exp, positive_exp,
                      DigitValue(s[1]), Tail(s))

\* parse_exponent, after the e: an optional sign and the digits
ParseExponent(significand, starting_exp, s) ==
    IF s # <<>> /\ s[1] \in {"+", "-"}
    THEN ExponentDigits(significand, starting_exp, s[1] = "+", Tail(s))
    ELSE ExponentDigits(significand, starting_exp, TRUE, s)

\* the end of a fraction: an exponent or the end of the number
AfterFraction(significand, exponent, s) ==
    IF s # <<>> /\ s[1] \in {"e", "E"}
    THEN ParseExponent(significand, exponent, Tail(s))
    ELSE FloatParts(significand, exponent, s)

\* parse_decimal_overflow: the digits the significand cannot hold are
\* dropped
ParseDecimalOverflow(significand, exponent, s) ==
    AfterFraction(significand, exponent, SkipDigits(s))

\* parse_decimal, after the point: each digit extends the significand and
\* lowers the exponent; one digit at least
RECURSIVE ReadFraction(_, _, _, _)
ReadFraction(significand, exponent_before, exponent_after, s) ==
    IF s # <<>> /\ IsDigit(s[1])
    THEN IF Overflows(significand, s[1])
         THEN ParseDecimalOverflow(significand,
                                   exponent_before + exponent_after, s)
         ELSE ReadFraction(Extended(significand, s[1]), exponent_before,
                           exponent_after - 1, Tail(s))
    ELSE IF exponent_after = 0 THEN NoRead
    ELSE AfterFraction(significand, exponent_before + exponent_after, s)

ParseDecimal(significand, exponent_before, s) ==
    ReadFraction(significand, exponent_before, 0, s)

\* parse_long_integer: the digits after the significand overflowed only
\* raise the exponent
RECURSIVE ParseLongInteger(_, _, _)
ParseLongInteger(significand, exponent, s) ==
    IF s # <<>> /\ IsDigit(s[1])
    THEN ParseLongInteger(significand, exponent + 1, Tail(s))
    ELSE IF s # <<>> /\ s[1] = "."
    THEN ParseDecimal(significand, exponent, Tail(s))
    ELSE AfterFraction(significand, exponent, s)

\* parse_number, after the integer part: a fraction, an exponent, or an
\* integer
ParseNumber(significand, s) ==
    IF s # <<>> /\ s[1] = "." THEN ParseDecimal(significand, 0, Tail(s))
    ELSE IF s # <<>> /\ s[1] \in {"e", "E"}
    THEN ParseExponent(significand, 0, Tail(s))
    ELSE IntegerParts(significand, s)

\* parse_integer, the digits after the first: the significand is a u64
RECURSIVE ReadSignificand(_, _)
ReadSignificand(significand, s) ==
    IF s # <<>> /\ IsDigit(s[1])
    THEN IF Overflows(significand, s[1])
         THEN ParseLongInteger(significand, 0, s)
         ELSE ReadSignificand(Extended(significand, s[1]), Tail(s))
    ELSE ParseNumber(significand, s)

\* parse_integer: a 0 stands alone, a leading zero before a digit is an
\* error
ParseInteger(s) ==
    IF s = <<>> \/ ~IsDigit(s[1]) THEN NoRead
    ELSE IF s[1] = "0"
    THEN IF Len(s) >= 2 /\ IsDigit(s[2]) THEN NoRead
         ELSE ParseNumber(<<>>, Tail(s))
    ELSE ReadSignificand(BigOf(DigitValue(s[1])), Tail(s))

\* the Number of a finite f64
FloatOf(neg, decimal) == JFloat(neg, decimal.digits, decimal.e)
FloatValue(neg, f) ==
    IF f.m = <<>> THEN JFloat(neg, <<"0">>, 0)
    ELSE FloatOf(neg, ShortestDecimal(f))

\* an infinite f64 is the error "number out of range"
FiniteFloat(neg, f) ==
    IF f.inf THEN NoRead ELSE Read(FloatValue(neg, f), <<>>)

\* f64_from_parts: significand as f64, scaled by the power of ten
FloatFromParts(neg, significand, exponent) ==
    FiniteFloat(neg, ScaleByPow10(F64FromInteger(significand), exponent))

\* the f64 read, followed by the rest of the text
FloatRead(f, rest) == IF f.ok THEN Read(f.val, rest) ELSE NoRead

\* parse_number's integer is a u64 when positive; when negative the i64
\* (significand as i64).wrapping_neg() if that is negative: -0 and the
\* integers below i64::MIN are not
IsInteger(neg, significand) ==
    ~neg \/ (significand # <<>> /\ ~BigLess(BigShl(<<1>>, 63), significand))

\* the Number the parser ended at, with its sign: an integer, or an f64.
\* The f64 of an integer that is no i64, -(significand as f64), and the
\* 0.0 of parse_exponent_overflow are what f64_from_parts makes of the
\* exponent 0, the product by POW10[0] = 1.0 being exact
NumberRead(neg, parts) ==
    IF ~parts.ok THEN NoRead
    ELSE IF parts.kind = "integer" /\ IsInteger(neg, parts.significand)
    THEN Read(JInt(neg, BigChars(parts.significand)), parts.rest)
    ELSE FloatRead(FloatFromParts(neg, parts.significand, parts.exponent),
                   parts.rest)

\* Deserializer::parse_any_number: -? int frac? exp?.  An integer is a u64
\* or an i64 when it fits, every other number an f64
ReadNumber(s) ==
    NumberRead(s # <<>> /\ s[1] = "-",
               ParseInteger(IF s # <<>> /\ s[1] = "-" THEN Tail(s) ELSE s))

\* map.insert(key, value)
MapInsert(map, key, value) ==
    [k \in DOMAIN map \cup {key} |-> IF k = key THEN value ELSE map[k]]

RECURSIVE ReadValue(_, _)
RECURSIVE ReadElements(_, _, _)
RECURSIVE ReadMembers(_, _, _)

\* the elements of an array after "[" or ","
ReadElements(s, acc, remaining_depth) ==
    LET item == ReadValue(s, remaining_depth) IN
    IF ~item.ok THEN NoRead
    ELSE LET rest == SkipWhitespace(item.rest)
             items == Append(acc, item.val) IN
         IF rest = <<>> THEN NoRead
         ELSE IF rest[1] = "]" THEN Read(JArr(items), Tail(rest))
         ELSE IF rest[1] = ","
         THEN ReadElements(Tail(rest), items, remaining_depth)
         ELSE NoRead

\* the members of an object after "{" or ","
ReadMembers(s, acc, remaining_depth) ==
    LET t == SkipWhitespace(s) IN
    IF t = <<>> \/ t[1] # "\"" THEN NoRead
    ELSE LET key == ReadStringBody(Tail(t), <<>>) IN
         IF ~key.ok THEN NoRead
         ELSE LET colon == SkipWhitespace(key.rest) IN
              IF colon = <<>> \/ colon[1] # ":" THEN NoRead
              ELSE LET member == ReadValue(Tail(colon), remaining_depth) IN
                   IF ~member.ok THEN NoRead
                   ELSE LET rest == SkipWhitespace(member.rest)
                            map == MapInsert(acc, key.val, member.val) IN
                        IF rest = <<>> THEN NoRead
                        ELSE IF rest[1] = "}" THEN Read(JObj(map), Tail(rest))
                        ELSE IF rest[1] = ","
                        THEN ReadMembers(Tail(rest), map, remaining_depth)
                        ELSE NoRead

\* one JSON value, after any whitespace.  check_recursion!: an array or an
\* object takes one from remaining_depth, and none being left is the error
\* "recursion limit exceeded"
ReadValue(s, remaining_depth) ==
    LET t == SkipWhitespace(s) IN
    IF t = <<>> THEN NoRead
    ELSE IF StartsWith(t, Chars.null) THEN Read(JNull, Skip(t, 4))
    ELSE IF StartsWith(t, Chars.true) THEN Read(JBool(TRUE), Skip(t, 4))
    ELSE IF StartsWith(t, Chars.false) THEN Read(JBool(FALSE), Skip(t, 5))
    ELSE IF IsDigit(t[1]) \/ t[1] = "-" THEN ReadNumber(t)
    ELSE IF t[1] = "\"" THEN
        LET body == ReadStringBody(Tail(t), <<>>) IN
        IF body.ok THEN Read(JStr(body.val), body.rest) ELSE NoRead
    ELSE IF t[1] \in {"[", "{"} /\ remaining_depth - 1 = 0 THEN NoRead
    ELSE IF t[1] = "[" THEN
        LET inner == SkipWhitespace(Tail(t)) IN
        IF inner # <<>> /\ inner[1] = "]" THEN Read(JArr(<<>>), Tail(inner))
        ELSE ReadElements(Tail(t), <<>>, remaining_depth - 1)
    ELSE IF t[1] = "{" THEN
        LET inner == SkipWhitespace(Tail(t)) IN
        IF inner # <<>> /\ inner[1] = "}" THEN Read(JObj(EmptyMap), Tail(inner))
        ELSE ReadMembers(Tail(t), EmptyMap, remaining_depth - 1)
    ELSE NoRead

\* serde_json::from_str::<Value>: one value and nothing but whitespace
\* after; a Deserializer starts with remaining_depth 128
Complete(value) ==
    IF value.ok /\ SkipWhitespace(value.rest) = <<>> THEN Some(value.val) ELSE None
from_str(s) == Complete(ReadValue(s, 128))

\* the sign of the exponent is written, "e+16" as "e-7"
ExponentChars(n) ==
    IF n < 0 THEN <<"-">> \o NatChars(0 - n) ELSE <<"+">> \o NatChars(n)

\* the shortest form of an f64, as serde_json 1.0.149 writes it (through
\* zmij; the versions that write through ryu differ in the "+" of a
\* positive exponent only, which they leave out)
FloatChars(f) ==
    LET digits == f.digits
        d == Len(digits)
        kk == d + f.e
        sign == IF f.neg THEN <<"-">> ELSE <<>>
        Zeros(n) == [i \in 1..n |-> "0"]
    IN  sign \o
        (IF digits = <<"0">> THEN <<"0", ".", "0">>
         ELSE IF 0 <= f.e /\ kk <= 16 THEN digits \o Zeros(f.e) \o <<".", "0">>
         ELSE IF 0 < kk /\ kk <= 16
              THEN SubSeq(digits, 1, kk) \o <<".">> \o SubSeq(digits, kk + 1, d)
         ELSE IF -5 < kk /\ kk <= 0 THEN <<"0", ".">> \o Zeros(0 - kk) \o digits
         ELSE IF d = 1 THEN digits \o <<"e">> \o ExponentChars(kk - 1)
         ELSE <<digits[1], ".">> \o Tail(digits) \o <<"e">>
              \o ExponentChars(kk - 1))

\* itoa of a u64 or an i64
IntChars(value) ==
    IF value.neg THEN <<"-">> \o value.digits ELSE value.digits

\* a string's characters as written between quotes: the quote, the
\* backslash and the control characters are escaped
RECURSIVE Escaped(_)
Escaped(s) ==
    IF s = <<>> THEN <<>>
    ELSE (CASE s[1] = "\"" -> <<"\\", "\"">>
            [] s[1] = "\\" -> <<"\\", "\\">>
            [] s[1] = CharOf(8) -> <<"\\", "b">>
            [] s[1] = "\t" -> <<"\\", "t">>
            [] s[1] = "\n" -> <<"\\", "n">>
            [] s[1] = "\f" -> <<"\\", "f">>
            [] s[1] = "\r" -> <<"\\", "r">>
            [] IsControl(s[1]) ->
                <<"\\", "u", "0", "0", HexLower[(CodeOf(s[1]) \div 16) + 1],
                  HexLower[(CodeOf(s[1]) % 16) + 1]>>
            [] OTHER -> <<s[1]>>) \o Escaped(Tail(s))

Quoted(s) == <<"\"">> \o Escaped(s) \o <<"\"">>

\* PrettyFormatter's indentation: two spaces a level
Indent(level) == [i \in 1..(2 * level) |-> " "]

\* String's Ord: a < b, byte by byte
RECURSIVE StrLess(_, _)
StrLess(a, b) ==
    IF b = <<>> THEN FALSE
    ELSE IF a = <<>> THEN TRUE
    ELSE IF a[1] = b[1] THEN StrLess(Tail(a), Tail(b))
    ELSE CharRank(a[1]) < CharRank(b[1])

\* the keys of a serde_json::Map in the order it iterates them: sorted
RECURSIVE KeySeq(_)
KeySeq(keys) ==
    IF keys = {} THEN <<>>
    ELSE LET k == CHOOSE x \in keys : \A y \in keys \ {x} : StrLess(x, y)
         IN  <<k>> \o KeySeq(keys \ {k})

\* serde_json::to_string_pretty of a value at a nesting level
RECURSIVE Pretty(_, _)
Pretty(value, level) ==
    CASE value.t = "null" -> Chars.null
      [] value.t = "bool" -> IF value.b THEN Chars.true ELSE Chars.false
      [] value.t = "num" -> IntChars(value)
      [] value.t = "float" -> FloatChars(value)
      [] value.t = "str" -> Quoted(value.s)
      [] value.t = "arr" ->
            IF value.items = <<>> THEN <<"[", "]">>
            ELSE <<"[", "\n">>
                 \o Join([i \in 1..Len(value.items) |->
                            Indent(level + 1) \o Pretty(value.items[i], level + 1)],
                         <<",", "\n">>)
                 \o <<"\n">> \o Indent(level) \o <<"]">>
      [] value.t = "obj" ->
            IF DOMAIN value.members = {} THEN <<"{", "}">>
            ELSE LET keys == KeySeq(DOMAIN value.members) IN
                 <<"{", "\n">>
                 \o Join([i \in 1..Len(keys) |->
                            Indent(level + 1) \o Quoted(keys[i]) \o <<":", " ">>
                            \o Pretty(value.members[keys[i]], level + 1)],
                         <<",", "\n">>)
                 \o <<"\n">> \o Indent(level) \o <<"}">>

to_string_pretty(value) == Pretty(value, 0)

\* ======================================================================
\* Field lists (adapters/schema_parser.rs, adapters/utils.rs)
\* ======================================================================
\* a Schema: the JSON document it holds, and whether serde_json::to_value
\* can serialize it
Schema(json) == [json |-> json, serializable |-> TRUE]
UnserializableSchema == [json |-> JNull, serializable |-> FALSE]

FieldInfo(name, type_name, description, required) ==
    [name |-> name, type_name |-> type_name, description |-> description,
     required |-> required]

\* Value::as_str / as_object / as_array behind an Option
AsStr(o) == IF IsSome(o) /\ Unwrap(o).t = "str" THEN Some(Unwrap(o).s) ELSE None
AsObject(o) ==
    IF IsSome(o) /\ Unwrap(o).t = "obj" THEN Some(Unwrap(o).members) ELSE None
AsArray(o) == IF IsSome(o) /\ Unwrap(o).t = "arr" THEN Some(Unwrap(o).items) ELSE None

extract_field_info_from_json(name, field_json, required) ==
    FieldInfo(name, extract_type_name_from_json(field_json),
              AsStr(JGet(field_json, "description")), required)

\* the strings of the "required" array, none when it is absent
RequiredFields(object_def) ==
    LET arr == AsArray(JGet(object_def, "required")) IN
    IF IsSome(arr)
    THEN { StrItems(Unwrap(arr))[i] : i \in 1..Len(StrItems(Unwrap(arr))) }
    ELSE {}

\* extract_fields_from_json: the HashMap of the fields under
\* object.properties, empty when the document has no such member
extract_fields_from_json(schema_json) ==
    LET object_def == JGet(schema_json, "object")
        properties ==
            IF IsSome(object_def)
            THEN AsObject(JGet(Unwrap(object_def), "properties")) ELSE None
    IN  IF IsSome(properties)
        THEN Ok([name \in DOMAIN Unwrap(properties) |->
                    extract_field_info_from_json(
                        name, Unwrap(properties)[name],
                        name \in RequiredFields(Unwrap(object_def)))])
        ELSE Ok(EmptyMap)

\* extract_fields_from_schema, re-exported as extract_fields
extract_fields(schema) ==
    IF schema.serializable THEN extract_fields_from_json(schema.json)
    ELSE Err(Error("SchemaError", "serialize"))

\* Result::unwrap_or_default on a field map
UnwrapOrDefault(r) == IF IsOk(r) THEN r.val ELSE EmptyMap

\* the orders in which a HashMap may hand out its keys
IterationOrders(map) ==
    { order \in [1..Cardinality(DOMAIN map) -> DOMAIN map] :
        \A i, j \in 1..Cardinality(DOMAIN map) : i # j => order[i] # order[j] }

\* utils::format_value: a string as it is, anything else pretty-printed
format_value(value) ==
    IF value.t = "str" THEN value.s ELSE to_string_pretty(value)

\* ======================================================================
\* ChatAdapter (adapters/chat_adapter.rs)
\* ======================================================================
HeaderOpen == <<"[", "[", " ", "#", "#", " ">>
HeaderClose == <<" ", "#", "#", " ", "]", "]">>
Header(name) == HeaderOpen \o name \o HeaderClose

\* \w of the regex crate: the characters that are Alphabetic, a mark (M),
\* a decimal digit (Nd), a connector (Pc) or a Join_Control, by the ranges
\* of their code points in order (Unicode 16.0)
WordRanges ==
    << <<48, 57>>, <<65, 90>>, <<95, 95>>, <<97, 122>>, <<170, 170>>,
       <<181, 181>>, <<186, 186>>, <<192, 214>>, <<216, 246>>, <<248, 705>>,
       <<710, 721>>, <<736, 740>>, <<748, 748>>, <<750, 750>>, <<768, 884>>,
       <<886, 887>>, <<890, 893>>, <<895, 895>>, <<902, 902>>, <<904, 906>>,
       <<908, 908>>, <<910, 929>>, <<931, 1013>>, <<1015, 1153>>, <<1155, 1327>>,
       <<1329, 1366>>, <<1369, 1369>>, <<1376, 1416>>, <<1425, 1469>>, <<1471, 1471>>,
       <<1473, 1474>>, <<1476, 1477>>, <<1479, 1479>>, <<1488, 1514>>, <<1519, 1522>>,
       <<1552, 1562>>, <<1568, 1641>>, <<1646, 1747>>, <<1749, 1756>>, <<1759, 1768>>,
       <<1770, 1788>>, <<1791, 1791>>, <<1808, 1866>>, <<1869, 1969>>, <<1984, 2037>>,
       <<2042, 2042>>, <<2045, 2045>>, <<2048, 2093>>, <<2112, 2139>>, <<2144, 2154>>,
       <<2160, 2183>>, <<2185, 2190>>, <<2199, 2273>>, <<2275, 2403>>, <<2406, 2415>>,
       <<2417, 2435>>, <<2437, 2444>>, <<2447, 2448>>, <<2451, 2472>>, <<2474, 2480>>,
       <<2482, 2482>>, <<2486, 2489>>, <<2492, 2500>>, <<2503, 2504>>, <<2507, 2510>>,
       <<2519, 2519>>, <<2524, 2525>>, <<2527, 2531>>, <<2534, 2545>>, <<2556, 2556>>,
       <<2558, 2558>>, <<2561, 2563>>, <<2565, 2570>>, <<2575, 2576>>, <<2579, 2600>>,
       <<2602, 2608>>, <<2610, 2611>>, <<2613, 2614>>, <<2616, 2617>>, <<2620, 2620>>,
       <<2622, 2626>>, <<2631, 2632>>, <<2635, 2637>>, <<2641, 2641>>, <<2649, 2652>>,
       <<2654, 2654>>, <<2662, 2677>>, <<2689, 2691>>, <<2693, 2701>>, <<2703, 2705>>,
       <<2707, 2728>>, <<2730, 2736>>, <<2738, 2739>>, <<2741, 2745>>, <<2748, 2757>>,
       <<2759, 2761>>, <<2763, 2765>>, <<2768, 2768>>, <<2784, 2787>>, <<2790, 2799>>,
       <<2809, 2815>>, <<2817, 2819>>, <<2821, 2828>>, <<2831, 2832>>, <<2835, 2856>>,
       <<2858, 2864>>, <<2866, 2867>>, <<2869, 2873>>, <<2876, 2884>>, <<2887, 2888>>,
       <<2891, 2893>>, <<2901, 2903>>, <<2908, 2909>>, <<2911, 2915>>, <<2918, 2927>>,
       <<2929, 2929>>, <<2946, 2947>>, <<2949, 2954>>, <<2958, 2960>>, <<2962, 2965>>,
       <<2969, 2970>>, <<2972, 2972>>, <<2974, 2975>>, <<2979, 2980>>, <<2984, 2986>>,
       <<2990, 3001>>, <<3006, 3010>>, <<3014, 3016>>, <<3018, 3021>>, <<3024, 3024>>,
       <<3031, 3031>>, <<3046, 3055>>, <<3072, 3084>>, <<3086, 3088>>, <<3090, 3112>>,
       <<3114, 3129>>, <<3132, 3140>>, <<3142, 3144>>, <<3146, 3149>>, <<3157, 3158>>,
       <<3160, 3162>>, <<3165, 3165>>, <<3168, 3171>>, <<3174, 3183>>, <<3200, 3203>>,
       <<3205, 3212>>, <<3214, 3216>>, <<3218, 3240>>, <<3242, 3251>>, <<3253, 3257>>,
       <<3260, 3268>>, <<3270, 3272>>, <<3274, 3277>>, <<3285, 3286>>, <<3293, 3294>>,
       <<3296, 3299>>, <<3302, 3311>>, <<3313, 3315>>, <<3328, 3340>>, <<3342, 3344>>,
       <<3346, 3396>>, <<3398, 3400>>, <<3402, 3406>>, <<3412, 3415>>, <<3423, 3427>>,
       <<3430, 3439>>, <<3450, 3455>>, <<3457, 3459>>, <<3461, 3478>>, <<3482, 3505>>,
       <<3507, 3515>>, <<3517, 3517>>, <<3520, 3526>>, <<3530, 3530>>, <<3535, 3540>>,
       <<3542, 3542>>, <<3544, 3551>>, <<3558, 3567>>, <<3570, 3571>>, <<3585, 3642>>,
       <<3648, 3662>>, <<3664, 3673>>, <<3713, 3714>>, <<3716, 3716>>, <<3718, 3722>>,
       <<3724, 3747>>, <<3749, 3749>>, <<3751, 3773>>, <<3776, 3780>>, <<3782, 3782>>,
       <<3784, 3790>>, <<3792, 3801>>, <<3804, 3807>>, <<3840, 3840>>, <<3864, 3865>>,
       <<3872, 3881>>, <<3893, 3893>>, <<3895, 3895>>, <<3897, 3897>>, <<3902, 3911>>,
       <<3913, 3948>>, <<3953, 3972>>, <<3974, 3991>>, <<3993, 4028>>, <<4038, 4038>>,
       <<4096, 4169>>, <<4176, 4253>>, <<4256, 4293>>, <<4295, 4295>>, <<4301, 4301>>,
       <<4304, 4346>>, <<4348, 4680>>, <<4682, 4685>>, <<4688, 4694>>, <<4696, 4696>>,
       <<4698, 4701>>, <<4704, 4744>>, <<4746, 4749>>, <<4752, 4784>>, <<4786, 4789>>,
       <<4792, 4798>>, <<4800, 4800>>, <<4802, 4805>>, <<4808, 4822>>, <<4824, 4880>>,
       <<4882, 4885>>, <<4888, 4954>>, <<4957, 4959>>, <<4992, 5007>>, <<5024, 5109>>,
       <<5112, 5117>>, <<5121, 5740>>, <<5743, 5759>>, <<5761, 5786>>, <<5792, 5866>>,
       <<5870, 5880>>, <<5888, 5909>>, <<5919, 5940>>, <<5952, 5971>>, <<5984, 5996>>,
       <<5998, 6000>>, <<6002, 6003>>, <<6016, 6099>>, <<6103, 6103>>, <<6108, 6109>>,
       <<6112, 6121>>, <<6155, 6157>>, <<6159, 6169>>, <<6176, 6264>>, <<6272, 6314>>,
       <<6320, 6389>>, <<6400, 6430>>, <<6432, 6443>>, <<6448, 6459>>, <<6470, 6509>>,
       <<6512, 6516>>, <<6528, 6571>>, <<6576, 6601>>, <<6608, 6617>>, <<6656, 6683>>,
       <<6688, 6750>>, <<6752, 6780>>, <<6783, 6793>>, <<6800, 6809>>, <<6823, 6823>>,
       <<6832, 6862>>, <<6912, 6988>>, <<6992, 7001>>, <<7019, 7027>>, <<7040, 7155>>,
       <<7168, 7223>>, <<7232, 7241>>, <<7245, 7293>>, <<7296, 7306>>, <<7312, 7354>>,
       <<7357, 7359>>, <<7376, 7378>>, <<7380, 7418>>, <<7424, 7957>>, <<7960, 7965>>,
       <<7968, 8005>>, <<8008, 8013>>, <<8016, 8023>>, <<8025, 8025>>, <<8027, 8027>>,
       <<8029, 8029>>, <<8031, 8061>>, <<8064, 8116>>, <<8118, 8124>>, <<8126, 8126>>,
       <<8130, 8132>>, <<8134, 8140>>, <<8144, 8147>>, <<8150, 8155>>, <<8160, 8172>>,
       <<8178, 8180>>, <<8182, 8188>>, <<8204, 8205>>, <<8255, 8256>>, <<8276, 8276>>,
       <<8305, 8305>>, <<8319, 8319>>, <<8336, 8348>>, <<8400, 8432>>, <<8450, 8450>>,
       <<8455, 8455>>, <<8458, 8467>>, <<8469, 8469>>, <<8473, 8477>>, <<8484, 8484>>,
       <<8486, 8486>>, <<8488, 8488>>, <<8490, 8493>>, <<8495, 8505>>, <<8508, 8511>>,
       <<8517, 8521>>, <<8526, 8526>>, <<8544, 8584>>, <<9398, 9449>>, <<11264, 11492>>,
       <<11499, 11507>>, <<11520, 11557>>, <<11559, 11559>>, <<11565, 11565>>, <<11568, 11623>>,
       <<11631, 11631>>, <<11647, 11670>>, <<11680, 11686>>, <<11688, 11694>>, <<11696, 11702>>,
       <<11704, 11710>>, <<11712, 11718>>, <<11720, 11726>>, <<11728, 11734>>, <<11736, 11742>>,
       <<11744, 11775>>, <<11823, 11823>>, <<12293, 12295>>, <<12321, 12335>>, <<12337, 12341>>,
       <<12344, 12348>>, <<12353, 12438>>, <<12441, 12442>>, <<12445, 12447>>, <<12449, 12538>>,
       <<12540, 12543>>, <<12549, 12591>>, <<12593, 12686>>, <<12704, 12735>>, <<12784, 12799>>,
       <<13312, 19903>>, <<19968, 42124>>, <<42192, 42237>>, <<42240, 42508>>, <<42512, 42539>>,
       <<42560, 42610>>, <<42612, 42621>>, <<42623, 42737>>, <<42775, 42783>>, <<42786, 42888>>,
       <<42891, 42957>>, <<42960, 42961>>, <<42963, 42963>>, <<42965, 42972>>, <<42994, 43047>>,
       <<43052, 43052>>, <<43072, 43123>>, <<43136, 43205>>, <<43216, 43225>>, <<43232, 43255>>,
       <<43259, 43259>>, <<43261, 43309>>, <<43312, 43347>>, <<43360, 43388>>, <<43392, 43456>>,
       <<43471, 43481>>, <<43488, 43518>>, <<43520, 43574>>, <<43584, 43597>>, <<43600, 43609>>,
       <<43616, 43638>>, <<43642, 43714>>, <<43739, 43741>>, <<43744, 43759>>, <<43762, 43766>>,
       <<43777, 43782>>, <<43785, 43790>>, <<43793, 43798>>, <<43808, 43814>>, <<43816, 43822>>,
       <<43824, 43866>>, <<43868, 43881>>, <<43888, 44010>>, <<44012, 44013>>, <<44016, 44025>>,
       <<44032, 55203>>, <<55216, 55238>>, <<55243, 55291>>, <<63744, 64109>>, <<64112, 64217>>,
       <<64256, 64262>>, <<64275, 64279>>, <<64285, 64296>>, <<64298, 64310>>, <<64312, 64316>>,
       <<64318, 64318>>, <<64320, 64321>>, <<64323, 64324>>, <<64326, 64433>>, <<64467, 64829>>,
       <<64848, 64911>>, <<64914, 64967>>, <<65008, 65019>>, <<65024, 65039>>, <<65056, 65071>>,
       <<65075, 65076>>, <<65101, 65103>>, <<65136, 65140>>, <<65142, 65276>>, <<65296, 65305>>,
       <<65313, 65338>>, <<65343, 65343>>, <<65345, 65370>>, <<65382, 65470>>, <<65474, 65479>>,
       <<65482, 65487>>, <<65490, 65495>>, <<65498, 65500>>, <<65536, 65547>>, <<65549, 65574>>,
       <<65576, 65594>>, <<65596, 65597>>, <<65599, 65613>>, <<65616, 65629>>, <<65664, 65786>>,
       <<65856, 65908>>, <<66045, 66045>>, <<66176, 66204>>, <<66208, 66256>>, <<66272, 66272>>,
       <<66304, 66335>>, <<66349, 66378>>, <<66384, 66426>>, <<66432, 66461>>, <<66464, 66499>>,
       <<66504, 66511>>, <<66513, 66517>>, <<66560, 66717>>, <<66720, 66729>>, <<66736, 66771>>,
       <<66776, 66811>>, <<66816, 66855>>, <<66864, 66915>>, <<66928, 66938>>, <<66940, 66954>>,
       <<66956, 66962>>, <<66964, 66965>>, <<66967, 66977>>, <<66979, 66993>>, <<66995, 67001>>,
       <<67003, 67004>>, <<67008, 67059>>, <<67072, 67382>>, <<67392, 67413>>, <<67424, 67431>>,
       <<67456, 67461>>, <<67463, 67504>>, <<67506, 67514>>, <<67584, 67589>>, <<67592, 67592>>,
       <<67594, 67637>>, <<67639, 67640>>, <<67644, 67644>>, <<67647, 67669>>, <<67680, 67702>>,
       <<67712, 67742>>, <<67808, 67826>>, <<67828, 67829>>, <<67840, 67861>>, <<67872, 67897>>,
       <<67968, 68023>>, <<68030, 68031>>, <<68096, 68099>>, <<68101, 68102>>, <<68108, 68115>>,
       <<68117, 68119>>, <<68121, 68149>>, <<68152, 68154>>, <<68159, 68159>>, <<68192, 68220>>,
       <<68224, 68252>>, <<68288, 68295>>, <<68297, 68326>>, <<68352, 68405>>, <<68416, 68437>>,
       <<68448, 68466>>, <<68480, 68497>>, <<68608, 68680>>, <<68736, 68786>>, <<68800, 68850>>,
       <<68864, 68903>>, <<68912, 68921>>, <<68928, 68965>>, <<68969, 68973>>, <<68975, 68997>>,
       <<69248, 69289>>, <<69291, 69292>>, <<69296, 69297>>, <<69314, 69316>>, <<69372, 69404>>,
       <<69415, 69415>>, <<69424, 69456>>, <<69488, 69509>>, <<69552, 69572>>, <<69600, 69622>>,
       <<69632, 69702>>, <<69734, 69749>>, <<69759, 69818>>, <<69826, 69826>>, <<69840, 69864>>,
       <<69872, 69881>>, <<69888, 69940>>, <<69942, 69951>>, <<69956, 69959>>, <<69968, 70003>>,
       <<70006, 70006>>, <<70016, 70084>>, <<70089, 70092>>, <<70094, 70106>>, <<70108, 70108>>,
       <<70144, 70161>>, <<70163, 70199>>, <<70206, 70209>>, <<70272, 70278>>, <<70280, 70280>>,
       <<70282, 70285>>, <<70287, 70301>>, <<70303, 70312>>, <<70320, 70378>>, <<70384, 70393>>,
       <<70400, 70403>>, <<70405, 70412>>, <<70415, 70416>>, <<70419, 70440>>, <<70442, 70448>>,
       <<70450, 70451>>, <<70453, 70457>>, <<70459, 70468>>, <<70471, 70472>>, <<70475, 70477>>,
       <<70480, 70480>>, <<70487, 70487>>, <<70493, 70499>>, <<70502, 70508>>, <<70512, 70516>>,
       <<70528, 70537>>, <<70539, 70539>>, <<70542, 70542>>, <<70544, 70581>>, <<70583, 70592>>,
       <<70594, 70594>>, <<70597, 70597>>, <<70599, 70602>>, <<70604, 70611>>, <<70625, 70626>>,
       <<70656, 70730>>, <<70736, 70745>>, <<70750, 70753>>, <<70784, 70853>>, <<70855, 70855>>,
       <<70864, 70873>>, <<71040, 71093>>, <<71096, 71104>>, <<71128, 71133>>, <<71168, 71232>>,
       <<71236, 71236>>, <<71248, 71257>>, <<71296, 71352>>, <<71360, 71369>>, <<71376, 71395>>,
       <<71424, 71450>>, <<71453, 71467>>, <<71472, 71481>>, <<71488, 71494>>, <<71680, 71738>>,
       <<71840, 71913>>, <<71935, 71942>>, <<71945, 71945>>, <<71948, 71955>>, <<71957, 71958>>,
       <<71960, 71989>>, <<71991, 71992>>, <<71995, 72003>>, <<72016, 72025>>, <<72096, 72103>>,
       <<72106, 72151>>, <<72154, 72161>>, <<72163, 72164>>, <<72192, 72254>>, <<72263, 72263>>,
       <<72272, 72345>>, <<72349, 72349>>, <<72368, 72440>>, <<72640, 72672>>, <<72688, 72697>>,
       <<72704, 72712>>, <<72714, 72758>>, <<72760, 72768>>, <<72784, 72793>>, <<72818, 72847>>,
       <<72850, 72871>>, <<72873, 72886>>, <<72960, 72966>>, <<72968, 72969>>, <<72971, 73014>>,
       <<73018, 73018>>, <<73020, 73021>>, <<73023, 73031>>, <<73040, 73049>>, <<73056, 73061>>,
       <<73063, 73064>>, <<73066, 73102>>, <<73104, 73105>>, <<73107, 73112>>, <<73120, 73129>>,
       <<73440, 73462>>, <<73472, 73488>>, <<73490, 73530>>, <<73534, 73538>>, <<73552, 73562>>,
       <<73648, 73648>>, <<73728, 74649>>, <<74752, 74862>>, <<74880, 75075>>, <<77712, 77808>>,
       <<77824, 78895>>, <<78912, 78933>>, <<78944, 82938>>, <<82944, 83526>>, <<90368, 90425>>,
       <<92160, 92728>>, <<92736, 92766>>, <<92768, 92777>>, <<92784, 92862>>, <<92864, 92873>>,
       <<92880, 92909>>, <<92912, 92916>>, <<92928, 92982>>, <<92992, 92995>>, <<93008, 93017>>,
       <<93027, 93047>>, <<93053, 93071>>, <<93504, 93548>>, <<93552, 93561>>, <<93760, 93823>>,
       <<93952, 94026>>, <<94031, 94087>>, <<94095, 94111>>, <<94176, 94177>>, <<94179, 94180>>,
       <<94192, 94193>>, <<94208, 100343>>, <<100352, 101589>>, <<101631, 101640>>, <<110576, 110579>>,
       <<110581, 110587>>, <<110589, 110590>>, <<110592, 110882>>, <<110898, 110898>>, <<110928, 110930>>,
       <<110933, 110933>>, <<110948, 110951>>, <<110960, 111355>>, <<113664, 113770>>, <<113776, 113788>>,
       <<113792, 113800>>, <<113808, 113817>>, <<113821, 113822>>, <<118000, 118009>>, <<118528, 118573>>,
       <<118576, 118598>>, <<119141, 119145>>, <<119149, 119154>>, <<119163, 119170>>, <<119173, 119179>>,
       <<119210, 119213>>, <<119362, 119364>>, <<119808, 119892>>, <<119894, 119964>>, <<119966, 119967>>,
       <<119970, 119970>>, <<119973, 119974>>, <<119977, 119980>>, <<119982, 119993>>, <<119995, 119995>>,
       <<119997, 120003>>, <<120005, 120069>>, <<120071, 120074>>, <<120077, 120084>>, <<120086, 120092>>,
       <<120094, 120121>>, <<120123, 120126>>, <<120128, 120132>>, <<120134, 120134>>, <<120138, 120144>>,
       <<120146, 120485>>, <<120488, 120512>>, <<120514, 120538>>, <<120540, 120570>>, <<120572, 120596>>,
       <<120598, 120628>>, <<120630, 120654>>, <<120656, 120686>>, <<120688, 120712>>, <<120714, 120744>>,
       <<120746, 120770>>, <<120772, 120779>>, <<120782, 120831>>, <<121344, 121398>>, <<121403, 121452>>,
       <<121461, 121461>>, <<121476, 121476>>, <<121499, 121503>>, <<121505, 121519>>, <<122624, 122654>>,
       <<122661, 122666>>, <<122880, 122886>>, <<122888, 122904>>, <<122907, 122913>>, <<122915, 122916>>,
       <<122918, 122922>>, <<122928, 122989>>, <<123023, 123023>>, <<123136, 123180>>, <<123184, 123197>>,
       <<123200, 123209>>, <<123214, 123214>>, <<123536, 123566>>, <<123584, 123641>>, <<124112, 124153>>,
       <<124368, 124410>>, <<124896, 124902>>, <<124904, 124907>>, <<124909, 124910>>, <<124912, 124926>>,
       <<124928, 125124>>, <<125136, 125142>>, <<125184, 125259>>, <<125264, 125273>>, <<126464, 126467>>,
       <<126469, 126495>>, <<126497, 126498>>, <<126500, 126500>>, <<126503, 126503>>, <<126505, 126514>>,
       <<126516, 126519>>, <<126521, 126521>>, <<126523, 126523>>, <<126530, 126530>>, <<126535, 126535>>,
       <<126537, 126537>>, <<126539, 126539>>, <<126541, 126543>>, <<126545, 126546>>, <<126548, 126548>>,
       <<126551, 126551>>, <<126553, 126553>>, <<126555, 126555>>, <<126557, 126557>>, <<126559, 126559>>,
       <<126561, 126562>>, <<126564, 126564>>, <<126567, 126570>>, <<126572, 126578>>, <<126580, 126583>>,
       <<126585, 126588>>, <<126590, 126590>>, <<126592, 126601>>, <<126603, 126619>>, <<126625, 126627>>,
       <<126629, 126633>>, <<126635, 126651>>, <<127280, 127305>>, <<127312, 127337>>, <<127344, 127369>>,
       <<130032, 130041>>, <<131072, 173791>>, <<173824, 177977>>, <<177984, 178205>>, <<178208, 183969>>,
       <<183984, 191456>>, <<191472, 192093>>, <<194560, 195101>>, <<196608, 201546>>, <<201552, 205743>>,
       <<917760, 917999>> >>

InWordRanges(code) ==
    \E i \in 1..(IF code < 128 THEN 4 ELSE Len(WordRanges)) :
        WordRanges[i][1] <= code /\ code <= WordRanges[i][2]
IsWordChar(c) == InWordRanges(CodeOf(c))

\* the length of the longest run of word characters s starts with
RECURSIVE WordRun(_)
WordRun(s) == IF s # <<>> /\ IsWordChar(s[1]) THEN 1 + WordRun(Tail(s)) ELSE 0

\* FIELD_HEADER_PATTERN matches at the character i of s
HeaderAt(s, i) ==
    LET word == WordRun(Skip(s, i + 6)) IN
    /\ StartsWith(Skip(s, i), HeaderOpen)
    /\ word >= 1
    /\ StartsWith(Skip(s, i + 6 + word), HeaderClose)

\* FIELD_HEADER_PATTERN.captures(s): the leftmost match, its group 1 and
\* the byte offset its group 0 ends at
Captures(s) ==
    IF \E i \in 0..Len(s) : HeaderAt(s, i)
    THEN LET i == CHOOSE k \in 0..Len(s) :
                    HeaderAt(s, k) /\ \A j \in 0..(k - 1) : ~HeaderAt(s, j)
             word == WordRun(Skip(s, i + 6))
         IN  Some([name |-> SubSeq(s, i + 7, i + 6 + word),
                   end |-> ByteLen(SubSeq(s, 1, i + 12 + word))])
    ELSE None

\* the loop over completion.lines(): a header line opens a section, any
\* other line goes to the section that is open.  The header is looked for
\* in the trimmed line and the end of the match is an offset into that;
\* the line itself is sliced at it, which panics inside a character
RECURSIVE ReadSections(_, _)
ReadSections(lines, sections) ==
    IF lines = <<>> THEN Ok(sections)
    ELSE LET line == Head(lines)
             captures == Captures(Trim(line))
         IN  IF IsSome(captures)
             THEN LET sliced == SliceFrom(line, Unwrap(captures).end) IN
                  IF ~IsOk(sliced) THEN Panic
                  ELSE ReadSections(Tail(lines),
                        Append(sections,
                               [key |-> Some(Unwrap(captures).name),
                                buf |-> IF Trim(sliced.val) = <<>> THEN <<>>
                                        ELSE <<Trim(sliced.val)>>]))
             ELSE ReadSections(Tail(lines),
                    [sections EXCEPT ![Len(sections)].buf = Append(@, line)])

SectionText(section) == Trim(Join(section.buf, <<"\n">>))

\* variant: the first section of a name is the one kept
CollectSections_FirstWins(sections) ==
    LET keyed == SelectSeq(sections, LAMBDA x : IsSome(x.key)) IN
    [key \in { Unwrap(keyed[i].key) : i \in 1..Len(keyed) } |->
        LET first == CHOOSE i \in 1..Len(keyed) :
                        /\ Unwrap(keyed[i].key) = key
                        /\ \A j \in 1..(i - 1) : Unwrap(keyed[j].key) # key
        IN  SectionText(keyed[first])]

\* filter_map(..).collect::<HashMap>(): the keyed sections, inserted in
\* order, a later one replacing an earlier one of the same name
CollectSections(sections) ==
    LET keyed == SelectSeq(sections, LAMBDA x : IsSome(x.key)) IN
    [key \in { Unwrap(keyed[i].key) : i \in 1..Len(keyed) } |->
        LET last == CHOOSE i \in 1..Len(keyed) :
                        /\ Unwrap(keyed[i].key) = key
                        /\ \A j \in (i + 1)..Len(keyed) : Unwrap(keyed[j].key) # key
        IN  SectionText(keyed[last])]

\* serde_json::from_str(value).unwrap_or(Value::String(value.clone()))
ValueOr(parsed, text) == IF IsSome(parsed) THEN Unwrap(parsed) ELSE JStr(text)

\* the JSON object built from the sections but `completed`
SectionsObject(sections) ==
    JObj([key \in DOMAIN sections \ {Chars.completed} |->
            ValueOr(from_str(sections[key]), sections[key])])

\* the Outputs type the adapters are tried with:
\*   struct Outputs { answer: String, data: Option<serde_json::Value> }
OutputsFields == <<[name |-> "answer", type |-> "String", optional |-> FALSE],
                   [name |-> "data", type |-> "Value", optional |-> TRUE]>>

HasType(value, type) ==
    CASE type = "String" -> value.t = "str"
      [] type = "i64" ->
            /\ value.t = "num"
            /\ \/ value.neg
               \/ BigLess(BigFromDigits(value.digits), BigShl(<<1>>, 63))
      [] OTHER -> TRUE

\* the derived Deserialize of Outputs, visit_seq: an array of exactly one
\* element a field, in the order of the fields, is read as the object of
\* these members
SeqAsMap(json) ==
    IF json.t = "arr" /\ Len(json.items) = Len(OutputsFields)
    THEN JObj([key \in { Chars[OutputsFields[i].name] :
                           i \in 1..Len(OutputsFields) } |->
                json.items[CHOOSE i \in 1..Len(OutputsFields) :
                              Chars[OutputsFields[i].name] = key]])
    ELSE json

\* serde_json::from_value::<Outputs>: every field of its type, an Option
\* field None (null) when its member is missing or null, a missing field
\* that is no Option an error, members that are no field ignored
from_value(value) ==
    LET json == SeqAsMap(value) IN
    IF /\ json.t = "obj"
       /\ \A i \in 1..Len(OutputsFields) :
            LET member == JGet(json, Chars[OutputsFields[i].name]) IN
            IF IsSome(member)
            THEN \/ HasType(Unwrap(member), OutputsFields[i].type)
                 \/ OutputsFields[i].optional /\ Unwrap(member) = JNull
            ELSE OutputsFields[i].optional
    THEN Ok(JObj([key \in { Chars[OutputsFields[i].name] :
                              i \in 1..Len(OutputsFields) } |->
                    IF key \in DOMAIN json.members THEN json.members[key]
                    ELSE JNull]))
    ELSE Err(Error("DecodeError", "deserialize"))

\* the sections of a completion
SectionsOf(completion) ==
    ReadSections(Lines(completion), <<[key |-> None, buf |-> <<>>]>>)

\* the outputs the sections read give
ParseSections(sections) ==
    IF IsOk(sections)
    THEN from_value(SectionsObject(CollectSections(sections.val)))
    ELSE Panic

\* ChatAdapter::parse
ChatAdapter_parse(completion) == ParseSections(SectionsOf(completion))

\* ChatAdapter::format_assistant_message_content, the field map iterated in
\* the given order; outputs is the value as serde_json::to_value gives it
ChatAdapter_format_assistant_message_content(outputs, order) ==
    LET present == SelectSeq(order,
                     LAMBDA name : IsSome(JGet(outputs, Chars[name])))
        parts == [i \in 1..Len(present) |->
                    Header(Chars[present[i]]) \o <<"\n">>
                    \o format_value(Unwrap(JGet(outputs, Chars[present[i]])))]
    IN  Join(Append(parts, Header(Chars.completed)), <<"\n", "\n">>)

\* extract_fields(schema).unwrap_or_default(): the field map a format_*
\* method iterates
FieldsOrEmpty(schema) == UnwrapOrDefault(extract_fields(schema))

\* ------------------------------------------------------- values tried
MaxPieces == 4

\* the concatenation of texts
RECURSIVE Concat(_)
Concat(pieces) ==
    IF pieces = <<>> THEN <<>> ELSE Head(pieces) \o Concat(Tail(pieces))

\* all texts of at most n pieces
TextsOf(pieces, n) ==
    { Concat(seq) : seq \in UNION { [1..k -> pieces] : k \in 0..n } }

ChatPieces ==
    { Header(Chars.answer), Header(Chars.data), Header(Chars.completed),
      <<"\n">>, <<" ">>, <<"x">>, <<"7">> }

\* completions whose characters take more than one byte of UTF-8: a wide
\* space before a header, a header cut inside a character, a header name
\* that is a letter past ASCII, and values written with an escape and with
\* an exponent
WideCompletions ==
    { <<"U+3000">> \o Header(Chars.answer) \o <<"x">>,
      [i \in 1..19 |-> " "] \o <<"U+00E9">> \o Header(Chars.answer),
      Header(<<"U+00E9">>) \o <<"x">>,
      Header(Chars.answer)
        \o <<"\n", "\"", "\\", "u", "0", "0", "E", "9", "\"">>,
      Header(Chars.answer) \o <<"x", "\n">> \o Header(Chars.data)
        \o <<"3", "e", "-", "3", "2", "4">> }

ChatCompletions == TextsOf(ChatPieces, MaxPieces) \cup WideCompletions

\* the properties of the schema of Outputs, and the schema with its
\* definition under the "object" member extract_fields_from_json reads
OutputsProperties ==
    JObj([answer |-> JObj([type |-> JStr("string")]),
          data |-> JObj([description |-> JStr("payload")])])

WrappedSchema ==
    Schema(JObj([object |->
        JObj([properties |-> OutputsProperties,
              required |-> JArr(<<JStr("answer")>>)])]))

AnswerTexts ==
    { <<"x">>, <<>>, <<"7">>, Chars.true, Chars.null, <<" ", "x">>,
      <<"x", "\n", "y">>, <<"\"", "x", "\"">>,
      <<"x", "\n">> \o Header(Chars.data) \o <<"y">>,
      <<"{", "x", "}">>, <<"{">>, <<"}", "{">> }

DataValues ==
    { JNull, JNum(7), JFloat(FALSE, <<"1">>, 5), JBool(TRUE), JStr(<<"x">>),
      JStr(<<"7">>), JStr(<<"a", "\r", "b">>), JStr(<<"{", "}">>),
      JArr(<<JNum(1), JNum(20)>>),
      JObj([k \in {<<"b">>} |-> JNum(1)]),
      JObj([k \in {<<"b">>} |-> JObj([j \in {<<"c">>} |-> JStr(<<"x">>)])]) }

\* an Outputs value, as serde_json::to_value gives it
OutputsValue(answer, data) ==
    JObj([key \in {Chars.answer, Chars.data} |->
            IF key = Chars.answer THEN JStr(answer) ELSE data])

OutputsValues ==
    { OutputsValue(answer, data) : answer \in AnswerTexts, data \in DataValues }

AdapterCall(outputs, schema, completion) ==
    [outputs |-> outputs, schema |-> schema, completion |-> completion]

\* ------------------------------------------------- specification ChatSpec
\* either an Outputs value to format and parse back, or a completion to parse
ChatInit ==
    /\ GenerateIdle
    /\ fn_out = None
    /\ \/ \E outputs \in OutputsValues :
            fn_in = AdapterCall(Some(outputs), WrappedSchema, None)
       \/ \E completion \in ChatCompletions :
            fn_in = AdapterCall(None, WrappedSchema, Some(completion))

ChatFormat ==
    /\ IsSome(fn_in.outputs)
    /\ fn_in.completion = None
    /\ \E order \in IterationOrders(FieldsOrEmpty(fn_in.schema)) :
        fn_in' = [fn_in EXCEPT !.completion =
                    Some(ChatAdapter_format_assistant_message_content(
                            Unwrap(fn_in.outputs), order))]
    /\ UNCHANGED <<fn_out, generateVars>>

ChatParse ==
    /\ IsSome(fn_in.completion)
    /\ fn_out = None
    /\ fn_out' = Some(ChatAdapter_parse(Unwrap(fn_in.completion)))
    /\ UNCHANGED <<fn_in, generateVars>>

ChatNext == ChatFormat \/ ChatParse

ChatSpec == ChatInit /\ [][ChatNext]_vars

\* a formatted Outputs value has been parsed back
RoundTripDone ==
    /\ pc = "idle"
    /\ IsSome(fn_in.outputs)
    /\ IsSome(fn_in.completion)
    /\ IsSome(fn_out)

\* C11 as stated: whatever the Outputs value, parsing the delimited text
\* formatted from it succeeds and gives the value back.
C11_AsStated ==
    RoundTripDone => fn_out = Some(Ok(Unwrap(fn_in.outputs)))

\* the sections of the completion parsed, in text order
SectionsRead == SectionsOf(Unwrap(fn_in.completion)).val

\* the positions of the sections of a name
Occurrences(name) ==
    { i \in 1..Len(SectionsRead) : SectionsRead[i].key = Some(Chars[name]) }

Latest(name) == CHOOSE i \in Occurrences(name) : \A j \in Occurrences(name) : j <= i

\* what a section's text stands for: its JSON value, else the text itself
ValueOfText(text) == ValueOr(from_str(text), text)

\* C13: when a header name occurs more than once in a completion, the
\* field of a successful delimited parse holds the content of the last
\* occurrence in text order, never that of an earlier one.
C13_LastWriteWins ==
    (pc = "idle" /\ IsSome(fn_in.completion) /\ IsSome(fn_out)
        /\ IsOk(Unwrap(fn_out)))
        => \A name \in {"answer", "data"} :
            Occurrences(name) # {}
                => Unwrap(fn_out).val.members[Chars[name]]
                    = ValueOfText(SectionText(SectionsRead[Latest(name)]))

\* two answer sections of different content, the parse keeping the second
C13_Witness ==
    /\ pc = "idle"
    /\ IsSome(fn_in.completion)
    /\ IsSome(fn_out)
    /\ IsOk(Unwrap(fn_out))
    /\ Cardinality(Occurrences("answer")) = 2
    /\ \E i \in Occurrences("answer") :
        /\ i < Latest("answer")
        /\ SectionText(SectionsRead[i]) = <<"x">>
        /\ SectionText(SectionsRead[Latest("answer")]) = <<>>
    /\ Unwrap(fn_out).val.members[Chars.answer] = JStr(<<>>)

\* ======================================================================
\* JsonAdapter (adapters/json_adapter.rs)
\* ======================================================================
IsBrace(c) == c \in {"{", "}"}

\* JSON_PATTERN matches s[i..j] (0-based, j exclusive). In the pattern
\* \{(?:[^{}]|(?R))*\} the group (?R) is a flag group of the regex crate
\* (CRLF mode) that matches the empty text, not a recursion: a match is a
\* "{", then characters that are no brace, then a "}".
JsonPatternAt(s, i, j) ==
    /\ 0 <= i /\ i + 2 <= j /\ j <= Len(s)
    /\ s[i + 1] = "{"
    /\ s[j] = "}"
    /\ \A k \in (i + 2)..(j - 1) : ~IsBrace(s[k])

\* JSON_PATTERN.find(s): the leftmost match
JsonPatternFind(s) ==
    IF \E i, j \in 0..Len(s) : JsonPatternAt(s, i, j)
    THEN LET i == CHOOSE a \in 0..Len(s) :
                    /\ \E j \in 0..Len(s) : JsonPatternAt(s, a, j)
                    /\ \A b \in 0..(a - 1) :
                        ~\E j \in 0..Len(s) : JsonPatternAt(s, b, j)
             j == CHOOSE b \in 0..Len(s) : JsonPatternAt(s, i, b)
         IN  Some(SubSeq(s, i + 1, j))
    ELSE None

\* ----------------------------------------------------------------------
\* serde_json::from_str::<Outputs>: the derived Deserialize of Outputs is
\* driven by the text, without a Value of the whole in between
\* ----------------------------------------------------------------------
\* Read::ignore_str, after the opening quote: an escape is one of the
\* eight characters or u and four hex digits (not decoded, so a lone
\* surrogate passes); a raw control character is an error
RECURSIVE IgnoreString(_)
IgnoreString(s) ==
    IF s = <<>> THEN NoRead
    ELSE IF s[1] = "\"" THEN Read(JNull, Tail(s))
    ELSE IF s[1] = "\\" THEN
        IF Len(s) >= 2 /\ s[2] \in {"\"", "\\", "/", "b", "f", "n", "r", "t"}
        THEN IgnoreString(Skip(s, 2))
        ELSE IF Len(s) >= 2 /\ s[2] = "u" /\ ReadHex4(Skip(s, 2)).ok
        THEN IgnoreString(Skip(s, 6))
        ELSE NoRead
    ELSE IF IsControl(s[1]) THEN NoRead
    ELSE IgnoreString(Tail(s))

\* ignore_exponent, after the e: an optional sign and one digit at least
IgnoreExponentDigits(s) ==
    IF s # <<>> /\ IsDigit(s[1]) THEN Read(JNull, SkipDigits(s)) ELSE NoRead
IgnoreExponent(s) ==
    IgnoreExponentDigits(IF s # <<>> /\ s[1] \in {"+", "-"} THEN Tail(s) ELSE s)

\* the end of an ignored number: an exponent or nothing
IgnoreAfterFraction(s) ==
    IF s # <<>> /\ s[1] \in {"e", "E"} THEN IgnoreExponent(Tail(s))
    ELSE Read(JNull, s)

\* ignore_decimal, after the point: one digit at least
IgnoreDecimal(s) ==
    IF s # <<>> /\ IsDigit(s[1]) THEN IgnoreAfterFraction(SkipDigits(s))
    ELSE NoRead

IgnoreAfterInteger(s) ==
    IF s # <<>> /\ s[1] = "." THEN IgnoreDecimal(Tail(s))
    ELSE IgnoreAfterFraction(s)

\* ignore_integer: the digits are passed over and the number is never
\* evaluated, so none is out of range; a leading zero before a digit is an
\* error
IgnoreInteger(s) ==
    IF s = <<>> \/ ~IsDigit(s[1]) THEN NoRead
    ELSE IF s[1] = "0"
    THEN IF Len(s) >= 2 /\ IsDigit(s[2]) THEN NoRead
         ELSE IgnoreAfterInteger(Tail(s))
    ELSE IgnoreAfterInteger(SkipDigits(s))

RECURSIVE IgnoreValue(_)
RECURSIVE IgnoreElements(_)
RECURSIVE IgnoreMembers(_)

\* the elements of an ignored array after "[" or ","
IgnoreElements(s) ==
    LET item == IgnoreValue(s) IN
    IF ~item.ok THEN NoRead
    ELSE LET rest == SkipWhitespace(item.rest) IN
         IF rest = <<>> THEN NoRead
         ELSE IF rest[1] = "]" THEN Read(JNull, Tail(rest))
         ELSE IF rest[1] = "," THEN IgnoreElements(Tail(rest))
         ELSE NoRead

\* the members of an ignored object after "{" or ","
IgnoreMembers(s) ==
    LET t == SkipWhitespace(s) IN
    IF t = <<>> \/ t[1] # "\"" THEN NoRead
    ELSE LET key == IgnoreString(Tail(t)) IN
         IF ~key.ok THEN NoRead
         ELSE LET colon == SkipWhitespace(key.rest) IN
              IF colon = <<>> \/ colon[1] # ":" THEN NoRead
              ELSE LET member == IgnoreValue(Tail(colon)) IN
                   IF ~member.ok THEN NoRead
                   ELSE LET rest == SkipWhitespace(member.rest) IN
                        IF rest = <<>> THEN NoRead
                        ELSE IF rest[1] = "}" THEN Read(JNull, Tail(rest))
                        ELSE IF rest[1] = "," THEN IgnoreMembers(Tail(rest))
                        ELSE NoRead

\* Deserializer::ignore_value, what the value of a member that is no field
\* goes through (IgnoredAny): the text is held to the grammar of JSON and
\* nothing more, the nesting is not counted
IgnoreValue(s) ==
    LET t == SkipWhitespace(s) IN
    IF t = <<>> THEN NoRead
    ELSE IF t[1] = "[" THEN
        LET inner == SkipWhitespace(Tail(t)) IN
        IF inner # <<>> /\ inner[1] = "]" THEN Read(JNull, Tail(inner))
        ELSE IgnoreElements(Tail(t))
    ELSE IF t[1] = "{" THEN
        LET inner == SkipWhitespace(Tail(t)) IN
        IF inner # <<>> /\ inner[1] = "}" THEN Read(JNull, Tail(inner))
        ELSE IgnoreMembers(Tail(t))
    ELSE IF t[1] = "\"" THEN IgnoreString(Tail(t))
    ELSE IF t[1] = "-" THEN IgnoreInteger(Tail(t))
    ELSE IF IsDigit(t[1]) THEN IgnoreInteger(t)
    ELSE IF StartsWith(t, Chars.null) THEN Read(JNull, Skip(t, 4))
    ELSE IF StartsWith(t, Chars.true) THEN Read(JNull, Skip(t, 4))
    ELSE IF StartsWith(t, Chars.false) THEN Read(JNull, Skip(t, 5))
    ELSE NoRead

\* the fields of Outputs met so far in the text of the object
NoFields == [answer |-> None, data |-> None]

\* deserialize_string: a string literal, anything else is "invalid type"
StringRead(body) ==
    IF body.ok THEN Read(JStr(body.val), body.rest) ELSE NoRead
ReadStringValue(t) ==
    IF t # <<>> /\ t[1] = "\"" THEN StringRead(ReadStringBody(Tail(t), <<>>))
    ELSE NoRead

\* visit_map, the value of the member of a key: a field met a second time
\* is the error "duplicate field"; answer is a String; data is an
\* Option<Value>, null being None, read one level below the struct; the
\* value of any other key is ignored
FieldRead(key, fields, s) ==
    IF key = Chars.answer
    THEN IF IsSome(fields.answer) THEN NoRead
         ELSE ReadStringValue(SkipWhitespace(s))
    ELSE IF key = Chars.data
    THEN IF IsSome(fields.data) THEN NoRead ELSE ReadValue(s, 127)
    ELSE IgnoreValue(s)

WithField(key, fields, value) ==
    IF key = Chars.answer THEN [fields EXCEPT !.answer = Some(value)]
    ELSE IF key = Chars.data THEN [fields EXCEPT !.data = Some(value)]
    ELSE fields

RECURSIVE ReadFields(_, _)

\* after the value of a member: "," and the next member, or "}"
FieldsNext(rest, fields) ==
    IF rest = <<>> THEN NoRead
    ELSE IF rest[1] = "}" THEN Read(fields, Tail(rest))
    ELSE IF rest[1] = "," THEN ReadFields(Tail(rest), fields)
    ELSE NoRead

FieldsAfter(key, fields, member) ==
    IF ~member.ok THEN NoRead
    ELSE FieldsNext(SkipWhitespace(member.rest),
                    WithField(key, fields, member.val))

FieldsColon(key, fields, colon) ==
    IF colon = <<>> \/ colon[1] # ":" THEN NoRead
    ELSE FieldsAfter(key, fields, FieldRead(key, fields, Tail(colon)))

FieldsOfKey(key, fields) ==
    IF ~key.ok THEN NoRead
    ELSE FieldsColon(key.val, fields, SkipWhitespace(key.rest))

FieldsStart(t, fields) ==
    IF t = <<>> \/ t[1] # "\"" THEN NoRead
    ELSE FieldsOfKey(ReadStringBody(Tail(t), <<>>), fields)

\* the members of the object after "{" or ",": the key is read as a string
ReadFields(s, fields) == FieldsStart(SkipWhitespace(s), fields)

\* deserialize_struct at "{"
StructStart(t, inner) ==
    IF inner # <<>> /\ inner[1] = "}" THEN Read(NoFields, Tail(inner))
    ELSE ReadFields(Tail(t), NoFields)
ReadStruct(t) == StructStart(t, SkipWhitespace(Tail(t)))

\* the end of visit_map and of the text: a missing answer is the error
\* "missing field", a missing data is None; nothing but whitespace may
\* follow the object
OutputsOfFields(read) ==
    IF read.ok /\ SkipWhitespace(read.rest) = <<>> /\ IsSome(read.val.answer)
    THEN Ok(JObj([key \in {Chars.answer, Chars.data} |->
                    IF key = Chars.answer THEN Unwrap(read.val.answer)
                    ELSE IF IsSome(read.val.data) THEN Unwrap(read.val.data)
                    ELSE JNull]))
    ELSE Err(Error("ParseError", "json"))

\* deserialize_struct at "[", visit_seq: the elements are the fields in
\* their order, each read as its field is, and one more or one fewer is an
\* error; that is the array read as a Value and handed to from_value
OutputsOfSeq(json) ==
    IF IsSome(json) /\ Unwrap(json).t = "arr" /\ IsOk(from_value(Unwrap(json)))
    THEN from_value(Unwrap(json))
    ELSE Err(Error("ParseError", "json"))

\* deserialize_struct: an object or an array, anything else is "invalid
\* type"
OutputsAt(t) ==
    IF t # <<>> /\ t[1] = "{" THEN OutputsOfFields(ReadStruct(t))
    ELSE OutputsOfSeq(from_str(t))

\* serde_json::from_str::<Outputs>
from_str_outputs(json_str) == OutputsAt(SkipWhitespace(json_str))

\* JsonAdapter::parse
JsonAdapter_parse(completion) ==
    LET captures == JsonPatternFind(completion) IN
    from_str_outputs(IF IsSome(captures) THEN Unwrap(captures) ELSE completion)

\* JsonAdapter::format_assistant_message_content; the fields of Outputs
\* are declared in the order of their names
JsonAdapter_format_assistant_message_content(outputs) ==
    to_string_pretty(outputs)

\* ------------------------------------------------------- values tried
FlatObject ==
    <<"{", "\"">> \o Chars.answer \o <<"\"", ":", " ", "\"", "x", "\"", "}">>
OuterOpen ==
    <<"{", "\"">> \o Chars.answer \o <<"\"", ":", " ", "\"", "x", "\"", ",", " ", "\"">>
    \o Chars.data \o <<"\"", ":", " ">>
InnerObject == <<"{", "\"", "b", "\"", ":", " ", "1", "}">>

JsonPieces ==
    { FlatObject, OuterOpen, InnerObject, <<"}">>, <<"{">>, <<"x">>, <<" ">> }

\* objects with members that are no field of Outputs, a field twice, and
\* the array form
MemberTexts ==
    { <<"{", "\"">> \o Chars.answer \o <<"\"", ":", "\"", "x", "\"", ",">> \o member
        \o <<"}">> :
        member \in { <<"\"", "z", "\"", ":", "1", "e", "9", "9", "9">>,
                     <<"\"", "z", "\"", ":", "\"", "\\", "u", "D", "8", "0", "0", "\"">>,
                     <<"\"", "z", "\"", ":", "[", "0", "1", "]">>,
                     <<"\"", "z", "\"", ":", "1", ",", "\"", "z", "\"", ":", "[", "]">>,
                     <<"\"">> \o Chars.data \o <<"\"", ":", "1", "e", "9", "9", "9">>,
                     <<"\"">> \o Chars.answer \o <<"\"", ":", "\"", "y", "\"">> } }
    \cup { <<"[", "\"", "x", "\"", ",", "7", "]">>, <<"[", "\"", "x", "\"", "]">> }

JsonCompletions == TextsOf(JsonPieces, MaxPieces) \cup MemberTexts

\* ------------------------------------------------- specification JsonSpec
JsonInit ==
    /\ GenerateIdle
    /\ fn_out = None
    /\ \/ \E outputs \in OutputsValues :
            fn_in = AdapterCall(Some(outputs), WrappedSchema, None)
       \/ \E completion \in JsonCompletions :
            fn_in = AdapterCall(None, WrappedSchema, Some(completion))

JsonFormat ==
    /\ IsSome(fn_in.outputs)
    /\ fn_in.completion = None
    /\ fn_in' = [fn_in EXCEPT !.completion =
                    Some(JsonAdapter_format_assistant_message_content(
                            Unwrap(fn_in.outputs)))]
    /\ UNCHANGED <<fn_out, generateVars>>

JsonParse ==
    /\ IsSome(fn_in.completion)
    /\ fn_out = None
    /\ fn_out' = Some(JsonAdapter_parse(Unwrap(fn_in.completion)))
    /\ UNCHANGED <<fn_in, generateVars>>

JsonNext == JsonFormat \/ JsonParse

JsonSpec == JsonInit /\ [][JsonNext]_vars

\* C12 as stated: whatever the Outputs value, parsing the JSON text
\* formatted from it succeeds and gives the value back.
C12_AsStated ==
    RoundTripDone => fn_out = Some(Ok(Unwrap(fn_in.outputs)))

\* the offset after the "}" that closes the "{" at offset i of s, braces
\* matched to their partners; 0 when it is never closed
RECURSIVE PartnerEnd(_, _, _)
PartnerEnd(s, k, depth) ==
    IF k > Len(s) THEN 0
    ELSE IF s[k] = "{" THEN PartnerEnd(s, k + 1, depth + 1)
    ELSE IF s[k] = "}" THEN
        IF depth = 1 THEN k ELSE PartnerEnd(s, k + 1, depth - 1)
    ELSE PartnerEnd(s, k + 1, depth)

IsBalancedStart(s, i) == s[i] = "{" /\ PartnerEnd(s, i + 1, 1) > 0

\* the first balanced {...} span of s, the whole of s when it has none
FirstBalancedSpan(s) ==
    IF \E i \in 1..Len(s) : IsBalancedStart(s, i)
    THEN LET i == CHOOSE a \in 1..Len(s) :
                    /\ IsBalancedStart(s, a)
                    /\ \A b \in 1..(a - 1) : ~IsBalancedStart(s, b)
         IN  SubSeq(s, i, PartnerEnd(s, i + 1, 1))
    ELSE s

\* C14 as stated: JsonAdapter::parse deserializes the first balanced
\* {...} span of the completion, nested braces matched to their partners
\* (the outermost object, not an inner one), and the whole completion when
\* there is no such span.
C14_AsStated ==
    (pc = "idle" /\ fn_in.outputs = None /\ IsSome(fn_in.completion)
        /\ IsSome(fn_out))
        => fn_out = Some(from_str_outputs(
                            FirstBalancedSpan(Unwrap(fn_in.completion))))

\* ======================================================================
\* Prompt rendering (ChatAdapter's format_* methods, and
\* Adapter::format_messages_with_schemas)
\* ======================================================================
\* a rendered text is the sequence of its parts; a part that names a field
\* carries the name
Part(kind, name, detail) == [kind |-> kind, name |-> name, detail |-> detail]

\* ChatAdapter::format_field_description, the field map iterated in order
ChatAdapter_format_field_description(schema, order) ==
    LET fields == FieldsOrEmpty(schema) IN
    [i \in 1..Len(order) |->
        Part("description", order[i],
             IF IsSome(fields[order[i]].description)
             THEN Unwrap(fields[order[i]].description)
             ELSE "No description")]

\* the headers format_field_structure writes for one field map
StructureHeaders(schema, order) ==
    [i \in 1..Len(order) |->
        Part("header", order[i], FieldsOrEmpty(schema)[order[i]].type_name)]

\* ChatAdapter::format_field_structure, its two field maps iterated in the
\* orders o1 and o2
ChatAdapter_format_field_structure(input_schema, output_schema, o1, o2) ==
    <<Part("structure", "", "")>>
    \o StructureHeaders(input_schema, o1)
    \o StructureHeaders(output_schema, o2)
    \o <<Part("completed", "", "")>>

\* ChatAdapter::format_task_description
ChatAdapter_format_task_description(instructions) ==
    <<Part("objective", "", instructions)>>

\* the output requirement format_user_message_content appends: the fields
\* of schema_for!(S::Outputs), in the order its field map hands them out
OutputRequirement(outputs_schema, order) ==
    <<Part("respond", "", "")>>
    \o [i \in 1..Len(order) |-> Part("respond_field", order[i], "")]
    \o <<Part("respond_end", "", "")>>

\* ChatAdapter::format_user_message_content: the values of the fields of
\* schema that the inputs have (iterated in order o1), then the output
\* requirement from the schema of S::Outputs (full, iterated in order o2)
ChatAdapter_format_user_message_content(json_value, schema, full, o1, o2) ==
    LET present == SelectSeq(o1, LAMBDA name : IsSome(JGet(json_value, name)))
    IN  [i \in 1..Len(present) |->
            Part("value", present[i],
                 format_value(Unwrap(JGet(json_value, present[i]))))]
        \o OutputRequirement(full, o2)

\* the system message of format_messages_with_schemas
SystemRenderings(in) ==
    { ChatAdapter_format_field_description(in.input_schema, o1)
      \o ChatAdapter_format_field_structure(in.input_schema, in.output_schema, o2, o3)
      \o ChatAdapter_format_task_description("instructions") :
        o1 \in IterationOrders(FieldsOrEmpty(in.input_schema)),
        o2 \in IterationOrders(FieldsOrEmpty(in.input_schema)),
        o3 \in IterationOrders(FieldsOrEmpty(in.output_schema)) }

\* a user message, of a demo or of the current inputs
UserRenderings(in) ==
    { ChatAdapter_format_user_message_content(
            in.inputs, in.input_schema, in.outputs_type_schema, o1, o2) :
        o1 \in IterationOrders(FieldsOrEmpty(in.input_schema)),
        o2 \in IterationOrders(FieldsOrEmpty(in.outputs_type_schema)) }

\* the assistant message of a demo
AssistantRenderings(in) ==
    { ChatAdapter_format_assistant_message_content(in.outputs, o) :
        o \in IterationOrders(FieldsOrEmpty(in.output_schema)) }

\* ------------------------------------------------------- values tried
\* a schema of the given fields: in the shape extract_fields_from_json
\* reads (wrapped), or without that member, where it finds no field
SchemaOf(names, wrapped) ==
    LET definition ==
            [properties |->
                JObj([n \in names |->
                        JObj([type |-> JStr("string"),
                              description |-> JStr("text")])]),
             required |-> JArr(<<>>)]
    IN  IF wrapped THEN Schema(JObj([object |-> JObj(definition)]))
        ELSE Schema(JObj(definition))

InputNames == {"query", "context"}
OutputNames == {"answer", "data"}
ReducedOutputNames == {"answer"}

\* what a signature and a call give the renderer: the schemas of
\* prompt_input_schema(), prompt_output_schema() and schema_for!(S::Outputs),
\* the filtered inputs, and the outputs of a demo
RenderInputs ==
    { [input_schema |-> i, output_schema |-> o, outputs_type_schema |-> t,
       inputs |-> JObj([n \in InputNames |-> JStr("text")]),
       outputs |-> OutputsValue(<<"x">>, JNum(7))] :
        i \in {SchemaOf(InputNames, TRUE), SchemaOf(InputNames, FALSE),
               UnserializableSchema},
        t \in {SchemaOf(OutputNames, TRUE)},
        o \in {SchemaOf(OutputNames, TRUE), SchemaOf(OutputNames, FALSE),
               SchemaOf(ReducedOutputNames, TRUE),
               SchemaOf(ReducedOutputNames, FALSE), UnserializableSchema} }

\* ----------------------------------------------- specification RenderSpec
\* generate with the texts of its messages
RenderInit ==
    /\ max_retries \in 0..1
    /\ demos \in 0..MaxDemos
    /\ inputs = [history |-> None, tools |-> None]
    /\ base_config = [model |-> "m", tools |-> None]
    /\ signature = [inject |-> "default", merge |-> "identity",
                    outputs_default |-> TRUE]
    /\ pc = "start"
    /\ messages = <<>>
    /\ config = base_config
    /\ attempt = 0
    /\ invocations = 0
    /\ outstanding = 0
    /\ sent = <<>>
    /\ responses = <<>>
    /\ hooks = <<>>
    /\ log = <<>>
    /\ result = None
    /\ fn_in \in RenderInputs
    /\ fn_out = None

\* generate up to the retry loop, the messages rendered
RenderStart ==
    /\ EnterLoop
    /\ \E system \in SystemRenderings(fn_in),
          users \in [1..(demos + 1) -> UserRenderings(fn_in)],
          assistants \in [1..demos -> AssistantRenderings(fn_in)] :
            fn_out' = Some([system |-> system, users |-> users,
                            assistants |-> assistants])
    /\ UNCHANGED fn_in

RenderNext ==
    \/ RenderStart
    \/ CallProvider
    \/ Exhausted
    \/ ProviderFailed
    \/ AssistantText
    \/ ToolOnly
    \/ OtherShape

RenderSpec == RenderInit /\ [][RenderNext]_vars

\* the messages of a generate call have been rendered
Rendered == pc # "idle" /\ fn_in # None /\ IsSome(fn_out)

\* reflecting a prompt schema into its field list failed
ReflectionFailed ==
    /\ fn_in # None
    /\ pc # "idle"
    /\ \/ ~IsOk(extract_fields(fn_in.input_schema))
       \/ ~IsOk(extract_fields(fn_in.output_schema))

\* the names of the properties a schema document declares, whatever its shape
SchemaFieldNames(schema) ==
    IF ~schema.serializable THEN {}
    ELSE LET object_def == JGet(schema.json, "object")
             definition == IF IsSome(object_def) THEN Unwrap(object_def)
                           ELSE schema.json
             properties == AsObject(JGet(definition, "properties"))
         IN  IF IsSome(properties) THEN DOMAIN Unwrap(properties) ELSE {}

\* the fields the parts of a kind name, in text order
NamesOf(parts, kinds) ==
    LET named == SelectSeq(parts, LAMBDA part : part.kind \in kinds)
    IN  [i \in 1..Len(named) |-> named[i].name]

Range(seq) == { seq[i] : i \in 1..Len(seq) }

FieldKinds == {"description", "header", "value", "respond_field"}

\* the names of the sections an assistant text holds
AssistantNames(text) ==
    LET sections == SectionsOf(text).val
    IN  { Unwrap(sections[i].key) :
            i \in { j \in 1..Len(sections) : IsSome(sections[j].key) } }
        \ {Chars.completed}

\* C16 as stated: no rendered message text names a field that is absent
\* from prompt_input_schema() and prompt_output_schema(); the output-field
\* instruction of each user message lists only fields of the prompt output
\* schema, also when that schema is overridden to fewer fields (stated for
\* the calls whose schemas reflect without error).
C16_AsStated ==
    (Rendered /\ ~ReflectionFailed) =>
        LET texts == Unwrap(fn_out)
            prompt == SchemaFieldNames(fn_in.input_schema)
                        \cup SchemaFieldNames(fn_in.output_schema)
        IN  /\ Range(NamesOf(texts.system, FieldKinds)) \subseteq prompt
            /\ \A i \in 1..Len(texts.users) :
                /\ Range(NamesOf(texts.users[i], FieldKinds)) \subseteq prompt
                /\ Range(NamesOf(texts.users[i], {"respond_field"}))
                    \subseteq SchemaFieldNames(fn_in.output_schema)
            /\ \A i \in 1..Len(texts.assistants) :
                AssistantNames(texts.assistants[i])
                    \subseteq { Chars[n] : n \in SchemaFieldNames(fn_in.output_schema) }

\* the properties of a schema document in the order the document holds them
RECURSIVE SortedNames(_)
SortedNames(names) ==
    IF names = {} THEN <<>>
    ELSE LET n == CHOOSE x \in names :
                    \A y \in names \ {x} : StrLess(Chars[x], Chars[y])
         IN  <<n>> \o SortedNames(names \ {n})

SchemaFieldOrder(schema) == SortedNames(DOMAIN FieldsOrEmpty(schema))

\* C17 as stated: every user message renders the input fields in the
\* schema's field order and names the output fields in the output schema's
\* field order; two renderings of the same inputs against the same schema
\* have the same field order, which is the order of the headers written by
\* format_field_structure (stated for the calls whose schemas reflect
\* without error).
C17_AsStated ==
    (Rendered /\ ~ReflectionFailed) =>
        LET texts == Unwrap(fn_out)
            headers == NamesOf(texts.system, {"header"})
        IN  \A i \in 1..Len(texts.users) :
            /\ NamesOf(texts.users[i], {"value"})
                = SchemaFieldOrder(fn_in.input_schema)
            /\ NamesOf(texts.users[i], {"respond_field"})
                = SchemaFieldOrder(fn_in.outputs_type_schema)
            /\ \A j \in 1..Len(texts.users) : texts.users[j] = texts.users[i]
            /\ NamesOf(texts.users[i], {"value"})
                = SubSeq(headers, 1, Len(NamesOf(texts.users[i], {"value"})))

\* C18 as stated: when reflecting a prompt schema fails, generate returns
\* that SchemaError, the provider is never invoked, and no message is
\* rendered from an empty field list in its place.
C18_AsStated ==
    ReflectionFailed =>
        /\ invocations = 0
        /\ IsSome(result) =>
            (~IsOk(Unwrap(result)) /\ Unwrap(result).err.kind = "SchemaError")

\* ----------------------------------------------------------------------
\* the delimited parse, header lines
\* ----------------------------------------------------------------------
\* the line loop as the claim reads it: the first content of a section is
\* the text after the header on its line, trimmed
RECURSIVE SectionsAsClaimed(_, _)
SectionsAsClaimed(lines, sections) ==
    IF lines = <<>> THEN sections
    ELSE LET line == Head(lines)
             captures == Captures(line)
         IN  IF IsSome(captures)
             THEN LET after == Trim(SliceFrom(line, Unwrap(captures).end).val)
                  IN  SectionsAsClaimed(Tail(lines),
                        Append(sections,
                               [key |-> Some(Unwrap(captures).name),
                                buf |-> IF after = <<>> THEN <<>> ELSE <<after>>]))
             ELSE SectionsAsClaimed(Tail(lines),
                    [sections EXCEPT ![Len(sections)].buf = Append(@, line)])

\* a completion has been parsed by ChatAdapter::parse
ChatParsed ==
    /\ pc = "idle"
    /\ fn_in # None
    /\ fn_in.outputs = None
    /\ IsSome(fn_in.completion)
    /\ IsSome(fn_out)

\* C21 as stated: in the delimited parse a header line opens a section
\* keyed by its word whose first content is exactly the trimmed text after
\* the header on that line, also when whitespace precedes the header;
\* lines before the first header reach no field and `completed` never
\* becomes a field. So the parse gives what these sections give.
C21_AsStated ==
    ChatParsed =>
        LET claimed == SectionsAsClaimed(Lines(Unwrap(fn_in.completion)),
                                         <<[key |-> None, buf |-> <<>>]>>)
        IN  /\ fn_out = Some(from_value(SectionsObject(CollectSections(claimed))))
            /\ IsOk(Unwrap(fn_out)) =>
                Chars.completed \notin DOMAIN Unwrap(fn_out).val.members

\* ----------------------------------------------------------------------
\* the generation loop, continued
\* ----------------------------------------------------------------------
\* C22: the messages rendered for n demos and no history number 2n + 2:
\* first the one system message, then for each demo in order its user
\* message and its assistant message, last the user message of the current
\* inputs; the rendered sequence is never empty, so a history is always
\* spliced in after the system message and never appended to an empty
\* sequence.
C22_RenderedShape ==
    LET n == demos IN
    /\ format_messages_with_schemas(n) # <<>>
    /\ (pc # "start" /\ inputs.history = None)
        => /\ Len(messages) = 2 * n + 2
           /\ messages[1] = MessageSystem(SystemContent)
           /\ \A j \in 2..Len(messages) : messages[j].role # "System"
           /\ \A i \in 1..n :
                /\ messages[2 * i] = MessageUser(UserContent(i))
                /\ messages[2 * i + 1]
                    = MessageAssistant(Some(AssistantContent(i)), None)
           /\ messages[2 * n + 2] = MessageUser(UserContent(0))
    /\ (pc # "start" /\ IsSome(inputs.history))
        => /\ messages # <<>>
           /\ messages[1] = MessageSystem(SystemContent)
           /\ Len(messages) = 2 * n + 2 + Len(Unwrap(inputs.history))

\* two demos, no history: six messages handed to the provider, the first
\* demo's pair before the second's
C22_Witness ==
    /\ fn_in = None
    /\ inputs.history = None
    /\ demos = 2
    /\ sent # <<>>
    /\ Len(sent[1].messages) = 6
    /\ sent[1].messages = messages
    /\ messages[2] = MessageUser(UserContent(1))
    /\ messages[3] = MessageAssistant(Some(AssistantContent(1)), None)
    /\ messages[4] = MessageUser(UserContent(2))
    /\ messages[5] = MessageAssistant(Some(AssistantContent(2)), None)
    /\ messages[6] = MessageUser(UserContent(0))

\* positions of the calls of a hook among the hook calls of one attempt
PositionsOf(hs, op) == { i \in 1..Len(hs) : hs[i].op = op }

\* C23 as stated: on an attempt whose text parses, a response with tool
\* calls has inject_tool_calls called exactly once with those calls,
\* strictly before merge_special_outputs, which receives the same calls; a
\* response without tool calls has inject_tool_calls not called and
\* merge_special_outputs receiving none.
C23_AsStated ==
    (Handled /\ LastParses)
        => LET hs == HooksOfLast
               inj == PositionsOf(hs, "inject")
               mrg == PositionsOf(hs, "merge")
           IN  IF IsSome(LastCalls)
               THEN /\ Cardinality(inj) = 1
                    /\ Cardinality(mrg) = 1
                    /\ \A i \in inj, j \in mrg :
                        /\ i < j
                        /\ hs[i].arg = Unwrap(LastCalls)
                        /\ hs[j].arg[2] = LastCalls
               ELSE /\ inj = {}
                    /\ Cardinality(mrg) = 1
                    /\ \A j \in mrg : hs[j].arg[2] = None

\* C23 (amended): on an attempt whose text parses, a response with tool calls has
\* inject_tool_calls called exactly once, with those calls, before any call
\* of merge_special_outputs, and merge_special_outputs (called once inject
\* succeeded) receives the same calls; a response without tool calls has
\* inject_tool_calls not called and merge_special_outputs called once with
\* none.
C23_InjectBeforeMerge ==
    (Handled /\ LastParses)
        => LET hs == HooksOfLast
               inj == PositionsOf(hs, "inject")
               mrg == PositionsOf(hs, "merge")
           IN  IF IsSome(LastCalls)
               THEN /\ Cardinality(inj) = 1
                    /\ \A i \in inj :
                        /\ hs[i].arg = Unwrap(LastCalls)
                        /\ hs[i - 1].op = "parse"
                        /\ hs[i].ret = inject_tool_calls(signature,
                                hs[i - 1].ret.val, Unwrap(LastCalls))
                        /\ Cardinality(mrg) = IF IsOk(hs[i].ret) THEN 1 ELSE 0
                        /\ \A j \in mrg :
                            /\ i < j
                            /\ hs[j].arg = <<hs[i].ret.val, LastCalls>>
               ELSE /\ inj = {}
                    /\ Cardinality(mrg) = 1
                    /\ \A j \in mrg : hs[j].arg[2] = None

\* a parsed text with calls: inject, then merge with the same calls
C23_Witness ==
    /\ pc = "done"
    /\ Handled
    /\ LastParses
    /\ IsSome(LastCalls)
    /\ Len(HooksOfLast) = 3
    /\ HooksOfLast[2].op = "inject"
    /\ HooksOfLast[2].arg = Unwrap(LastCalls)
    /\ HooksOfLast[3].op = "merge"
    /\ HooksOfLast[3].arg[2] = LastCalls

\* C24: on a response without text and with tool calls, an Outputs type
\* that cannot be built from an empty JSON object makes generate return that
\* error on the attempt: the provider is not invoked again, also when
\* attempts remain, and neither inject_tool_calls nor merge_special_outputs
\* is called.
C24_EmptyObjectErrorFatal ==
    (Handled /\ LastIsToolOnly /\ ~IsOk(FromEmptyObject(signature)))
        => /\ ReturnedOnLast
           /\ result = Some(FromEmptyObject(signature))
           /\ ~IsOk(Unwrap(result))
           /\ attempt = NumResponses - 1
           /\ Len(HooksOfLast) = 1
           /\ HooksOfLast[1].op = "from_value"
           /\ PositionsOf(HooksOfLast, "inject") = {}
           /\ PositionsOf(HooksOfLast, "merge") = {}
           /\ Len(sent) = NumResponses

\* tool calls without text on attempt 0 of 3, Outputs with a required field
C24_Witness ==
    /\ pc = "done"
    /\ max_retries = 3
    /\ NumResponses = 1
    /\ IsOk(responses[1])
    /\ IsToolOnlyResponse(responses[1].val)
    /\ ~signature.outputs_default
    /\ invocations = 1
    /\ result = Some(Err(Error("DecodeError", "empty")))
    /\ Len(hooks) = 1

\* C25: with max_retries = 0 the provider is never invoked, no response is
\* handled (so neither retry guard `attempt < max_retries - 1` is evaluated)
\* and generate returns the error reporting 0 attempts; with max_retries >= 1
\* generate never returns the 'Failed after N attempts' error.
C25_ZeroBudget ==
    /\ max_retries = 0
        => /\ invocations = 0
           /\ sent = <<>>
           /\ responses = <<>>
           /\ hooks = <<>>
           /\ log = <<>>
           /\ pc \in {"start", "loop", "done"}
           /\ pc = "done" => result = Some(Err(Error("FailedAfter", 0)))
    /\ (max_retries >= 1 /\ pc = "done")
        => /\ result # None
           /\ IsOk(Unwrap(result)) \/ Unwrap(result).err.kind # "FailedAfter"
           /\ NumResponses >= 1
           /\ attempt < max_retries

\* generate returned with a budget of zero attempts
C25_Witness ==
    /\ max_retries = 0
    /\ pc = "done"
    /\ invocations = 0
    /\ result # None
    /\ ~IsOk(Unwrap(result))
    /\ Unwrap(result).err.kind = "FailedAfter"
    /\ Unwrap(result).err.id = 0

\* attempt i (counted from 1) failed with a provider error or a parse error
AttemptFailed(i) ==
    LET r == responses[i] IN
    \/ ~IsOk(r)
    \/ /\ IsTextResponse(r.val)
       /\ ~IsOk(parse(Unwrap(r.val.content)))

\* the error of a failed attempt, as generate returns it
ErrorOfAttempt(i) ==
    LET r == responses[i] IN
    IF ~IsOk(r) THEN r ELSE parse(Unwrap(r.val.content))

\* C26: provider errors and parse errors use one attempt budget: the
\* provider is never invoked more than max_retries times, every retried
\* failure of either kind uses up one attempt, and a generate call whose
\* attempts all failed with a provider error or a parse error, in any
\* order, returns the error of the attempt with index max_retries - 1.
C26_SharedBudget ==
    /\ invocations <= max_retries
    /\ NumResponses <= invocations
    /\ Len(log) = attempt
    /\ \A i \in 1..Len(log) : AttemptFailed(i)
    /\ (pc = "done" /\ NumResponses >= 1
            /\ \A i \in 1..NumResponses : AttemptFailed(i))
        => /\ NumResponses = max_retries
           /\ invocations = max_retries
           /\ attempt = max_retries - 1
           /\ result = Some(ErrorOfAttempt(max_retries))

\* three attempts failing in both ways, the last error returned
C26_Witness ==
    /\ pc = "done"
    /\ max_retries = 3
    /\ NumResponses = 3
    /\ \A i \in 1..3 : AttemptFailed(i)
    /\ \E i, j \in 1..3 : ~IsOk(responses[i]) /\ IsOk(responses[j])
    /\ result = Some(ErrorOfAttempt(3))
    /\ invocations = 3

\* ------------------------------------------------------------ termination
\* the steps generate takes by itself, between two awaits
GenerateStep == GenerateStart \/ CallProvider \/ Exhausted

\* the pending provider.complete(..).await yields, with any return value
ProviderReturn == ProviderFailed \/ AssistantText \/ ToolOnly \/ OtherShape

\* generate as a task that is polled until it returns: its own steps are
\* taken when they can be; nothing is assumed about the provider
TaskSpec == Init /\ [][Next]_vars /\ WF_vars(GenerateStep)

\* C27: the provider is invoked at most max_retries times; if every provider
\* invocation returns, generate returns an output or an error; and a
\* generate call that never returns is, from some point on, waiting for one
\* provider invocation that never returns.
C27_Terminates ==
    /\ [](invocations <= max_retries)
    /\ WF_vars(ProviderReturn) => <>(pc = "done" /\ result # None)
    /\ \/ <>(pc = "done" /\ result # None)
       \/ <>[](pc = "awaiting" /\ outstanding = 1)

\* generate returned after using the whole budget of three invocations
C27_Witness ==
    /\ pc = "done"
    /\ result # None
    /\ max_retries = 3
    /\ invocations = 3
    /\ outstanding = 0
    /\ NumResponses = 3

=============================================================================
